---- MODULE Spec2Model ----
(***************************************************************************)
(* SynopticData, the client of the Synoptic Data station API               *)
(* (src/src/metpy/remote/synoptic_data.py): the request descriptor, the    *)
(* URL it builds, and the tables it makes of a response.                   *)
(*                                                                         *)
(* Python values.  A string is a sequence of tokens; the tokens are chosen *)
(* so that every substring the code looks for ("precip", ",") is a token   *)
(* of its own.  A dict is a sequence of [k, v] entries in insertion order  *)
(* with distinct keys.  A value v is a str, an int or a list:              *)
(*    [t |-> "str",  s |-> <<tokens>>, items |-> <<>>]                     *)
(*    [t |-> "int",  s |-> <<digits>>, items |-> <<>>]                     *)
(*    [t |-> "list", s |-> <<>>, items |-> <<str or int values>>]          *)
(***************************************************************************)
EXTENDS Integers, Sequences, FiniteSets, TLC

VARIABLES
  obj,    \* obj[i]: the SynopticData instance i (its attributes), or not live
  heap,   \* the dict objects instances share with their caller, by reference
  out,    \* what the last operation did: its arguments, outcome, network calls
  norm    \* the last application of a normalizer function: input and result

vars == <<obj, heap, out, norm>>

\* ------------------------------------------------------------ Python values

PyStr(s) == [t |-> "str", s |-> s, items |-> <<>>]
PyInt(d) == [t |-> "int", s |-> <<d>>, items |-> <<>>]
PyList(xs) == [t |-> "list", s |-> <<>>, items |-> xs]

Range(f) == {f[i] : i \in DOMAIN f}

\* str(x) of a str or an int
py_str(x) == x.s

\* dict operations
Keys(d) == {d[i].k : i \in DOMAIN d}
Has(d, k) == \E i \in DOMAIN d : d[i].k = k
Get(d, k) == d[CHOOSE i \in DOMAIN d : d[i].k = k].v
Put(d, k, v) ==
  IF Has(d, k)
    THEN [i \in DOMAIN d |-> IF d[i].k = k THEN [k |-> k, v |-> v] ELSE d[i]]
    ELSE Append(d, [k |-> k, v |-> v])
RECURSIVE Update(_, _)
Update(d, e) ==
  IF e = <<>> THEN d ELSE Update(Put(d, e[1].k, e[1].v), Tail(e))
Items(d) == {<<d[i].k, d[i].v>> : i \in DOMAIN d}

\* `needle in x`: a substring test on a str, an element test on a list, a
\* TypeError on an int
py_in_raises(x) == x.t = "int"
py_in(needle, x) ==
  IF x.t = "str" THEN needle \in Range(x.s)
  ELSE \E j \in DOMAIN x.items : x.items[j] = PyStr(<<needle>>)

\* the four services of __init__
TimeSeries == "TimeSeries"
Latest == "Latest"
NearestTime == "NearestTime"
Precip == "Precip"
Services == {TimeSeries, Latest, NearestTime, Precip}

\* --------------------------------------------------------- build_query_string

\* ','.join(map(str, xs))
RECURSIVE join(_)
join(xs) ==
  IF xs = <<>> THEN <<>>
  ELSE IF Len(xs) = 1 THEN py_str(xs[1])
  ELSE py_str(xs[1]) \o <<",">> \o join(Tail(xs))

\* urllib.parse.quote_plus on one token: the reserved characters the
\* requests carry are percent-encoded, a space becomes "+"
quote_tok(c) ==
  IF c = "," THEN "%2C" ELSE IF c = "|" THEN "%7C" ELSE IF c = " " THEN "+" ELSE c
quote_plus(s) == [j \in DOMAIN s |-> quote_tok(s[j])]

\* urllib.parse.urlencode: k=quote_plus(str(v)) for every entry, in order,
\* joined by "&"; the query string is kept as the sequence of its k=v parts
urlencode(d) == [j \in DOMAIN d |-> [k |-> d[j].k, v |-> quote_plus(py_str(d[j].v))]]

\* a faulty join, for comparison: a list value becomes its first element
join_lists_m(d) ==
  [j \in DOMAIN d |->
     IF d[j].v.t = "list" /\ Len(d[j].v.items) > 0
       THEN [k |-> d[j].k, v |-> PyStr(py_str(d[j].v.items[1]))]
       ELSE d[j]]
\* the loop of build_query_string: every list value becomes its elements,
\* comma-joined
join_lists(d) ==
  [j \in DOMAIN d |->
     IF d[j].v.t = "list" THEN [k |-> d[j].k, v |-> PyStr(join(d[j].v.items))]
     ELSE d[j]]

build_query_string(qsp_dic) == urlencode(join_lists(qsp_dic))

\* ------------------------------------------------------ the JSON response

\* A JSON scalar: a number, null or a string; Absent stands for a key the
\* record does not have.
Num(n) == [t |-> "num", x |-> n, s |-> ""]
Null == [t |-> "null", x |-> 0, s |-> ""]
JStr(s) == [t |-> "str", x |-> 0, s |-> s]
JList == [t |-> "list", x |-> 0, s |-> ""]
Absent == [t |-> "absent", x |-> 0, s |-> ""]
NaN == [t |-> "nan", x |-> 0, s |-> ""]
None == [t |-> "none", x |-> 0, s |-> ""]

\* the strings float() parses, with the number each denotes
FloatOf(s) ==
  IF s = "40" THEN 40 ELSE IF s = "-111" THEN -111 ELSE IF s = "1288" THEN 1288
  ELSE 0
IsFloatStr(s) == s \in {"40", "-111", "1288"}

\* float(record[key]): the number, or the exception the subscript or the
\* conversion raises
py_float(x) ==
  IF x.t = "absent" THEN [exc |-> "KeyError", v |-> None]
  ELSE IF x.t = "num" THEN [exc |-> "", v |-> Num(x.x)]
  ELSE IF x.t = "str"
    THEN IF IsFloatStr(x.s) THEN [exc |-> "", v |-> Num(FloatOf(x.s))]
         ELSE [exc |-> "ValueError", v |-> None]
  ELSE [exc |-> "TypeError", v |-> None]

\* try: float(...) except TypeError: None
meta_field(x) ==
  IF py_float(x).exc = "TypeError" THEN [exc |-> "", v |-> None] ELSE py_float(x)

\* the timestamp strings of the service and the instant (minutes) each
\* denotes under the request's time format: pd.to_datetime(s, format=...)
DateStrings == <<"2022-06-01 00:00", "2022-06-01 01:00", "2022-06-01 02:00">>
to_datetime(x) ==
  IF x.t = "str" /\ \E j \in DOMAIN DateStrings : DateStrings[j] = x.s
    THEN [exc |-> "", v |-> 60 * ((CHOOSE j \in DOMAIN DateStrings : DateStrings[j] = x.s) - 1)]
  ELSE IF x.t = "absent" THEN [exc |-> "KeyError", v |-> 0]
  ELSE [exc |-> "ValueError", v |-> 0]

\* the order of station ids in an index (string comparison)
StidRank(stid) ==
  IF stid = "D6863" THEN 1 ELSE IF stid = "KMSO" THEN 2 ELSE IF stid = "KSLC" THEN 3
  ELSE 4

\* --------------------------------------------------------------- DataFrames

\* A DataFrame: its column names and its rows in order; a row is its index
\* key (one value per index level) and one cell per column.
EmptyDF == [names |-> <<>>, columns |-> <<>>, rows |-> <<>>]
NoDF == [names |-> <<"none">>, columns |-> <<>>, rows |-> <<>>]

IndexOf(seq, x) == CHOOSE j \in DOMAIN seq : seq[j] = x
InSeq(seq, x) == \E j \in DOMAIN seq : seq[j] = x

RECURSIVE AppendNew(_, _)
AppendNew(cols, more) ==
  IF more = <<>> THEN cols
  ELSE AppendNew(IF InSeq(cols, more[1]) THEN cols ELSE Append(cols, more[1]),
                 Tail(more))

Reindex(df, cols) ==
  [j \in DOMAIN df.rows |->
     [key |-> df.rows[j].key,
      cells |-> [c \in DOMAIN cols |->
                   IF InSeq(df.columns, cols[c])
                     THEN df.rows[j].cells[IndexOf(df.columns, cols[c])]
                     ELSE NaN]]]

\* pd.concat([a, b], axis=0): the rows of a then those of b, over the
\* columns of a followed by the new columns of b
concat(a, b) ==
  LET cols == AppendNew(a.columns, b.columns)
  IN [names |-> IF a.names = <<>> THEN b.names ELSE a.names,
      columns |-> cols,
      rows |-> Reindex(a, cols) \o Reindex(b, cols)]

\* the order of two (stid, dattim) index keys
KeyLeq(p, q) ==
  \/ StidRank(p[1]) < StidRank(q[1])
  \/ StidRank(p[1]) = StidRank(q[1]) /\ p[2] <= q[2]

RECURSIVE InsertRow(_, _)
InsertRow(sorted, r) ==
  IF sorted = <<>> THEN <<r>>
  ELSE IF KeyLeq(sorted[Len(sorted)].key, r.key) THEN Append(sorted, r)
  ELSE Append(InsertRow(SubSeq(sorted, 1, Len(sorted) - 1), r), sorted[Len(sorted)])

RECURSIVE SortRows(_)
SortRows(rows) ==
  IF rows = <<>> THEN <<>>
  ELSE InsertRow(SortRows(SubSeq(rows, 1, Len(rows) - 1)), rows[Len(rows)])

\* a faulty sort, for comparison: the rows stay as they were concatenated
sort_index_m(df) == df
\* data_df.sort_index(inplace=True)
sort_index(df) == [df EXCEPT !.rows = SortRows(df.rows)]

\* the dict of a station record without one key
RECURSIVE Without(_, _)
Without(d, k) ==
  IF d = <<>> THEN <<>>
  ELSE IF d[1].k = k THEN Without(Tail(d), k)
  ELSE <<d[1]>> \o Without(Tail(d), k)

ColumnNames(d) == [j \in DOMAIN d |-> d[j].k]

\* pd.DataFrame(dict of equally long lists, index=...): ValueError when a
\* list is not as long as the index
frame_of_lists(d, stid, datetimes) ==
  IF \E j \in DOMAIN d : Len(d[j].v) # Len(datetimes)
    THEN [exc |-> "ValueError", df |-> EmptyDF, index |-> <<>>]
    ELSE [exc |-> "",
          df |-> [names |-> <<"stid", "dattim">>,
                  columns |-> ColumnNames(d),
                  rows |-> [r \in DOMAIN datetimes |->
                              [key |-> <<stid, datetimes[r]>>,
                               cells |-> [c \in DOMAIN d |-> d[c].v[r]]]]],
          index |-> <<>>]

\* ------------------------------------------------------------ return_stn_df

DateKey == <<"date_time">>

\* pd.to_datetime(list of strings): the instants, or the first exception
RECURSIVE to_datetimes(_)
to_datetimes(xs) ==
  IF xs = <<>> THEN [exc |-> "", v |-> <<>>]
  ELSE LET h == to_datetime(xs[1])
           t == to_datetimes(Tail(xs))
       IN IF h.exc # "" THEN [exc |-> h.exc, v |-> <<>>]
          ELSE IF t.exc # "" THEN t
          ELSE [exc |-> "", v |-> <<h.v>> \o t.v]

\* lines 47-61: [stid, lon, lat, elev] of one station record
meta_row_of(stid, lon, lat, elev) ==
  IF lon.exc # "" THEN [exc |-> lon.exc, row |-> <<>>]
  ELSE IF lat.exc # "" THEN [exc |-> lat.exc, row |-> <<>>]
  ELSE IF elev.exc # "" THEN [exc |-> elev.exc, row |-> <<>>]
  ELSE [exc |-> "", row |-> [key |-> <<stid>>, cells |-> <<lon.v, lat.v, elev.v>>]]
meta_row(rec) ==
  meta_row_of(rec.STID, meta_field(rec.LONGITUDE), meta_field(rec.LATITUDE),
              meta_field(rec.ELEVATION))

NoData(exc) == [exc |-> exc, df |-> EmptyDF, index |-> <<>>]

\* lines 66-69: the TimeSeries table of a station over its parsed dates
series_frame(stid, data_out, datetime) ==
  IF datetime.exc # "" THEN NoData(datetime.exc)
  ELSE [frame_of_lists(Without(data_out, DateKey), stid, datetime.v)
          EXCEPT !.index = datetime.v]

\* a faulty flattening, for comparison: every column holds the value of the
\* first variable
single_frame_m(stid, data_out, datetime) ==
  IF datetime.exc # "" THEN NoData(datetime.exc)
  ELSE [exc |-> "",
        df |-> [names |-> <<"stid", "dattim">>,
                columns |-> ColumnNames(data_out),
                rows |-> <<[key |-> <<stid, datetime.v>>,
                            cells |-> [c \in DOMAIN data_out |-> data_out[1].v.value]]>>],
        index |-> <<datetime.v>>]
\* lines 71-75: the one row of a Latest or NearestTime station
single_frame(stid, data_out, datetime) ==
  IF datetime.exc # "" THEN NoData(datetime.exc)
  ELSE [exc |-> "",
        df |-> [names |-> <<"stid", "dattim">>,
                columns |-> ColumnNames(data_out),
                rows |-> <<[key |-> <<stid, datetime.v>>,
                            cells |-> [c \in DOMAIN data_out |-> data_out[c].v.value]]>>],
        index |-> <<datetime.v>>]

\* lines 63-76: the station's observation table and the instants of its index
stn_data(rec, date_format, service) ==
  IF ~rec.OBSERVATIONS.present THEN NoData("KeyError")
  ELSE IF service = TimeSeries
    THEN IF ~Has(rec.OBSERVATIONS.d, DateKey) THEN NoData("KeyError")
         ELSE series_frame(rec.STID, rec.OBSERVATIONS.d,
                           to_datetimes(Get(rec.OBSERVATIONS.d, DateKey)))
  ELSE IF rec.OBSERVATIONS.d = <<>> THEN NoData("IndexError")
  ELSE single_frame(rec.STID, rec.OBSERVATIONS.d,
                    to_datetime(rec.OBSERVATIONS.d[1].v.date_time))

\* lines 78-85: the station's QC table over the same index, or None
stn_qc(rec, qc_flag, index) ==
  IF qc_flag
    THEN [frame_of_lists(IF rec.QC.present THEN rec.QC.d ELSE <<>>, rec.STID, index)
            EXCEPT !.index = <<"frame">>]
    ELSE [exc |-> "", df |-> EmptyDF, index |-> <<"none">>]

\* a faulty metadata table, for comparison: only the first record has a row
meta_frame_first(meta_list) ==
  [names |-> <<"stid">>, columns |-> <<"lon", "lat", "elev">>,
   rows |-> IF meta_list = <<>> THEN <<>> ELSE <<meta_list[1]>>]
\* lines 95-96: the metadata table, indexed by stid
meta_frame(meta_list) ==
  [names |-> <<"stid">>, columns |-> <<"lon", "lat", "elev">>, rows |-> meta_list]

NoTables(exc, walked) ==
  [exc |-> exc, walked |-> walked, data_df |-> NoDF, meta_df |-> NoDF, qc_df |-> NoDF]

\* the loop of lines 46-93 from station i on, data_df and qc_df holding the
\* tables of the stations before it; walked counts the records read
RECURSIVE stn_loop(_, _, _, _, _, _, _, _)
RECURSIVE stn_step(_, _, _, _, _, _, _, _, _, _)
RECURSIVE stn_step_qc(_, _, _, _, _, _, _, _, _, _, _)
stn_loop(data, i, date_format, qc_flag, service, meta_list, data_df, qc_df) ==
  IF i > Len(data)
    THEN [exc |-> "", walked |-> Len(data), data_df |-> data_df,
          meta_df |-> meta_list, qc_df |-> qc_df]
    ELSE stn_step(data, i, date_format, qc_flag, service, meta_list, data_df, qc_df,
                  meta_row(data[i]), stn_data(data[i], date_format, service))
stn_step(data, i, date_format, qc_flag, service, meta_list, data_df, qc_df, m, o) ==
  IF m.exc # "" THEN NoTables(m.exc, i)
  ELSE IF o.exc # "" THEN NoTables(o.exc, i)
  ELSE stn_step_qc(data, i, date_format, qc_flag, service, meta_list, data_df, qc_df,
                   m, o, stn_qc(data[i], qc_flag, o.index))
stn_step_qc(data, i, date_format, qc_flag, service, meta_list, data_df, qc_df, m, o, q) ==
  IF q.exc # "" THEN NoTables(q.exc, i)
  ELSE stn_loop(data, i + 1, date_format, qc_flag, service,
                Append(meta_list, m.row),
                IF i = 1 THEN o.df ELSE concat(data_df, o.df),
                IF i = 1 THEN q.df
                ELSE IF q.index = <<"none">> THEN qc_df ELSE concat(qc_df, q.df))

\* lines 95-101 after the loop: data_df is unbound when STATION is empty
stn_tables(data, l) ==
  IF l.exc # "" THEN l
  ELSE IF Len(data) = 0 THEN NoTables("UnboundLocalError", 0)
  ELSE [l EXCEPT !.data_df = sort_index(@), !.meta_df = meta_frame(@)]

\* return_stn_df(data, date_format, qc_flag, service)
return_stn_df(data, date_format, qc_flag, service) ==
  stn_tables(data,
             stn_loop(data, 1, date_format, qc_flag, service, <<>>, EmptyDF, EmptyDF))

\* --------------------------------------------------------- return_precip_df

\* A precipitation payload: OBSERVATIONS.d is
\*   [nested |-> under the key 'precipitation', list |-> a list of records or
\*    one record, recs |-> the records, each a dict of column name -> cell]

RECURSIVE AllColumns(_, _)
AllColumns(recs, cols) ==
  IF recs = <<>> THEN cols
  ELSE AllColumns(Tail(recs), AppendNew(cols, ColumnNames(recs[1])))

\* pd.DataFrame(list of dicts): one row per dict over the union of the keys
frame_of_records(recs) ==
  LET cols == AllColumns(recs, <<>>)
  IN [names |-> <<>>, columns |-> cols,
      rows |-> [r \in DOMAIN recs |->
                  [key |-> <<>>,
                   cells |-> [c \in DOMAIN cols |->
                                IF Has(recs[r], cols[c]) THEN Get(recs[r], cols[c])
                                ELSE NaN]]]]

\* df.rename(columns=...): renames is a sequence of <<old, new>>
rename(df, renames) ==
  [df EXCEPT !.columns =
     [c \in DOMAIN df.columns |->
        IF \E j \in DOMAIN renames : renames[j][1] = df.columns[c]
          THEN renames[CHOOSE j \in DOMAIN renames : renames[j][1] = df.columns[c]][2]
          ELSE df.columns[c]]]

\* df[name] = value: the column is overwritten, or added as the last one
set_column(df, name, value) ==
  IF InSeq(df.columns, name)
    THEN [df EXCEPT !.rows =
            [r \in DOMAIN df.rows |->
               [df.rows[r] EXCEPT !.cells[IndexOf(df.columns, name)] = value]]]
    ELSE [df EXCEPT !.columns = Append(df.columns, name),
                    !.rows = [r \in DOMAIN df.rows |->
                                [df.rows[r] EXCEPT !.cells = Append(@, value)]]]

RECURSIVE RemoveAt(_, _)
RemoveAt(seq, j) ==
  IF j = 1 THEN Tail(seq) ELSE <<seq[1]>> \o RemoveAt(Tail(seq), j - 1)

\* df.drop(name, axis=1)
drop(df, name) ==
  LET j == IndexOf(df.columns, name)
  IN [df EXCEPT !.columns = RemoveAt(df.columns, j),
                !.rows = [r \in DOMAIN df.rows |->
                            [df.rows[r] EXCEPT !.cells = RemoveAt(@, j)]]]

\* df[name] = pd.to_datetime(df[name], format=...): a missing cell stays
\* missing (NaT)
dates_ok(df, name) ==
  \A r \in DOMAIN df.rows :
    LET c == df.rows[r].cells[IndexOf(df.columns, name)]
    IN c.t = "nan" \/ to_datetime(c).exc = ""
convert_dates(df, name) ==
  [df EXCEPT !.rows =
     [r \in DOMAIN df.rows |->
        LET j == IndexOf(df.columns, name)
            c == df.rows[r].cells[j]
        IN IF c.t = "nan" THEN df.rows[r]
           ELSE [df.rows[r] EXCEPT !.cells[j] = Num(to_datetime(c).v)]]]

\* df.set_index(levels): the level columns become the key of each row
RECURSIVE set_index(_, _)
set_index(df, levels) ==
  IF levels = <<>> THEN df
  ELSE LET j == IndexOf(df.columns, levels[1])
           moved == [names |-> Append(df.names, levels[1]),
                     columns |-> RemoveAt(df.columns, j),
                     rows |-> [r \in DOMAIN df.rows |->
                                 [key |-> Append(df.rows[r].key, df.rows[r].cells[j]),
                                  cells |-> RemoveAt(df.rows[r].cells, j)]]]
       IN set_index(moved, Tail(levels))

\* lines 122-139: the station's rows
precip_rows(rec, pmode) ==
  IF ~rec.OBSERVATIONS.present THEN [exc |-> "KeyError", df |-> EmptyDF]
  ELSE LET o == rec.OBSERVATIONS.d IN
    IF pmode
      THEN IF ~o.nested THEN [exc |-> "KeyError", df |-> EmptyDF]
           ELSE [exc |-> "",
                 df |-> set_column(
                          rename(frame_of_records(o.recs),
                                 << <<(<<"total">>), (<<"precipitation">>)>> >>),
                          <<"stid">>, JStr(rec.STID))]
      ELSE LET raw == IF o.nested
                        THEN << <<[k |-> <<"precipitation">>, v |-> JList]>> >>
                        ELSE o.recs
           IN [exc |-> "",
               df |-> set_column(
                        rename(frame_of_records(raw),
                               << <<(<<"ob_start_time_1">>), (<<"first_report">>)>>,
                                  <<(<<"ob_end_time_1">>), (<<"last_report">>)>>,
                                  <<(<<"total_precip_value_1">>), (<<"precipitation">>)>> >>),
                        <<"stid">>, JStr(rec.STID))]

RECURSIVE precip_loop(_, _, _, _, _)
RECURSIVE precip_step(_, _, _, _, _, _, _)
precip_loop(data, i, pmode, meta_list, data_df) ==
  IF i > Len(data)
    THEN [exc |-> "", walked |-> Len(data), data_df |-> data_df,
          meta_df |-> meta_list, qc_df |-> NoDF]
    ELSE precip_step(data, i, pmode, meta_list, data_df, meta_row(data[i]),
                     precip_rows(data[i], pmode))
precip_step(data, i, pmode, meta_list, data_df, m, o) ==
  IF m.exc # "" THEN NoTables(m.exc, i)
  ELSE IF o.exc # "" THEN NoTables(o.exc, i)
  ELSE precip_loop(data, i + 1, pmode, Append(meta_list, m.row),
                   IF i = 1 THEN o.df ELSE concat(data_df, o.df))

\* a faulty clean-up, for comparison: report_type is kept
keep_report_type(df) == df
\* lines 146-147
drop_report_type(df) ==
  IF InSeq(df.columns, <<"report_type">>) THEN drop(df, <<"report_type">>) ELSE df

\* a faulty index, for comparison: always station and the two reports
index_precip_plain(df) ==
  set_index(df, << <<"stid">>, <<"first_report">>, <<"last_report">> >>)
\* lines 152-157
index_precip(df) ==
  IF InSeq(df.columns, <<"accum_hours">>)
    THEN set_index(df, << <<"stid">>, <<"accum_hours">>, <<"first_report">>,
                          <<"last_report">> >>)
  ELSE IF InSeq(df.columns, <<"interval">>)
    THEN set_index(df, << <<"stid">>, <<"interval">>, <<"first_report">>,
                          <<"last_report">> >>)
  ELSE set_index(df, << <<"stid">>, <<"first_report">>, <<"last_report">> >>)

\* lines 149-150: the two date columns parsed, or the exception
parse_reports(df) ==
  IF ~InSeq(df.columns, <<"first_report">>) \/ ~InSeq(df.columns, <<"last_report">>)
    THEN [exc |-> "KeyError", df |-> NoDF]
  ELSE IF ~dates_ok(df, <<"first_report">>) \/ ~dates_ok(df, <<"last_report">>)
    THEN [exc |-> "ValueError", df |-> NoDF]
  ELSE [exc |-> "",
        df |-> convert_dates(convert_dates(df, <<"first_report">>), <<"last_report">>)]

precip_indexed(l, x) ==
  IF x.exc # "" THEN NoTables(x.exc, l.walked)
  ELSE [l EXCEPT !.data_df = index_precip(x.df), !.meta_df = meta_frame(@)]

\* lines 145-162 after the loop
precip_tables(data, l) ==
  IF l.exc # "" THEN l
  ELSE IF Len(data) = 0 THEN NoTables("UnboundLocalError", 0)
  ELSE precip_indexed(l, parse_reports(drop_report_type(l.data_df)))

\* return_precip_df(data, date_format, pmode)
return_precip_df(data, date_format, pmode) ==
  precip_tables(data, precip_loop(data, 1, pmode, <<>>, EmptyDF))

\* --------------------------------------------------------- variable_details

\* SENSOR_VARIABLES.d: variable -> child key -> [position, derived_from],
\* each a JSON scalar or Absent

\* a faulty walk, for comparison: a position is stored whenever the field is
\* there, and a lineage for every child
RECURSIVE child_details_all(_, _, _)
child_details_all(children, position, derived_from) ==
  IF children = <<>>
    THEN [exc |-> "", position |-> position, derived_from |-> derived_from]
  ELSE child_details_all(Tail(children),
                         IF children[1].v.position.t # "absent"
                           THEN Put(position, children[1].k, children[1].v.position)
                           ELSE position,
                         Put(derived_from, children[1].k, children[1].v.derived_from))
\* lines 176-182 for the children of one variable
RECURSIVE child_details(_, _, _)
child_details(children, position, derived_from) ==
  IF children = <<>>
    THEN [exc |-> "", position |-> position, derived_from |-> derived_from]
  ELSE LET c == children[1]
           p == c.v.position
           f == py_float(p)
           set_p == p.t # "absent" /\ p # JStr("")
       IN IF set_p /\ f.exc # ""
            THEN [exc |-> f.exc, position |-> <<>>, derived_from |-> <<>>]
          ELSE child_details(Tail(children),
                             IF set_p THEN Put(position, c.k, f.v) ELSE position,
                             IF c.v.derived_from.t # "absent"
                               THEN Put(derived_from, c.k, c.v.derived_from)
                               ELSE derived_from)

RECURSIVE sensor_details(_, _, _)
sensor_details(sensor_dic, position, derived_from) ==
  IF sensor_dic = <<>>
    THEN [exc |-> "", position |-> position, derived_from |-> derived_from]
  ELSE LET c == child_details(sensor_dic[1].v, position, derived_from)
       IN IF c.exc # "" THEN c
          ELSE sensor_details(Tail(sensor_dic), c.position, c.derived_from)

RECURSIVE details_loop(_, _, _, _)
details_loop(data, i, position_details, derived_from_details) ==
  IF i > Len(data)
    THEN [exc |-> "", position |-> position_details,
          derived_from |-> derived_from_details]
  ELSE IF ~data[i].SENSOR_VARIABLES.present
    THEN [exc |-> "KeyError", position |-> <<>>, derived_from |-> <<>>]
  ELSE LET d == sensor_details(data[i].SENSOR_VARIABLES.d, <<>>, <<>>)
       IN IF d.exc # "" THEN [exc |-> d.exc, position |-> <<>>, derived_from |-> <<>>]
          ELSE details_loop(data, i + 1,
                            Put(position_details, data[i].STID, d.position),
                            Put(derived_from_details, data[i].STID, d.derived_from))

\* variable_details(data)
variable_details(data) == details_loop(data, 1, <<>>, <<>>)

\* ------------------------------------------------------------ the unit map

units_map ==
  << <<"Celsius", "degC">>, <<"Fahrenheit", "degF">>, <<"Pascals", "pascal">>,
     <<"Millimeters", "millimeter">>, <<"Degrees", "degree">>,
     <<"Statute_miles", "us_statute_mile">>, <<"gm", "gram">>, <<"Inches", "inch">>,
     <<"Miles/hour", "mile/hour">>, <<"ug/m3", "ug/m**3">>, <<"ft3/s", "ft**3/s">> >>

\* a faulty renaming, for comparison: the units stay as the service sent them
map_units_raw(units) == units
\* lines 406-408: every unit the rename table knows is replaced
map_units(units) ==
  [j \in DOMAIN units |->
     IF \E m \in DOMAIN units_map : units_map[m][1] = units[j].v
       THEN [k |-> units[j].k,
             v |-> units_map[CHOOSE m \in DOMAIN units_map :
                               units_map[m][1] = units[j].v][2]]
       ELSE units[j]]

\* column.find(u_name) != -1
Find(column, u_name) ==
  \E off \in 0..(Len(column) - Len(u_name)) :
    SubSeq(column, off + 1, off + Len(u_name)) = u_name

\* a faulty entry, for comparison: the unit is stored under the unit name
RECURSIVE column_unit_m(_, _, _)
column_unit_m(column, units, unit_dic) ==
  IF units = <<>> THEN unit_dic
  ELSE column_unit_m(column, Tail(units),
                     IF Find(column, units[1].k) THEN Put(unit_dic, units[1].k, units[1].v)
                     ELSE unit_dic)
\* another, for comparison: the loop over the unit names stops at the first
\* match
RECURSIVE column_unit_first(_, _, _)
column_unit_first(column, units, unit_dic) ==
  IF units = <<>> THEN unit_dic
  ELSE IF Find(column, units[1].k) THEN Put(unit_dic, column, units[1].v)
  ELSE column_unit_first(column, Tail(units), unit_dic)
\* lines 411-414 for one column: every matching unit name updates the entry
RECURSIVE column_unit(_, _, _)
column_unit(column, units, unit_dic) ==
  IF units = <<>> THEN unit_dic
  ELSE column_unit(column, Tail(units),
                   IF Find(column, units[1].k) THEN Put(unit_dic, column, units[1].v)
                   ELSE unit_dic)

\* lines 409-414
RECURSIVE build_unit_dic(_, _, _)
build_unit_dic(columns, units, unit_dic) ==
  IF columns = <<>> THEN unit_dic
  ELSE build_unit_dic(Tail(columns), units, column_unit(columns[1], units, unit_dic))

\* lines 405-414: the unit map of the columns under the UNITS of a response
unit_dic_of(columns, units) == build_unit_dic(columns, map_units(units), <<>>)

\* ------------------------------------------------------------- the class

valid_time_keys(service) ==
  IF service = TimeSeries THEN {"start", "end", "recent"}
  ELSE IF service = Latest THEN {"within", "minmax", "minmaxtype"}
  ELSE IF service = NearestTime THEN {"within", "attime"}
  ELSE {"start", "end", "recent"}

url0(service) ==
  IF service = TimeSeries THEN "https://api.synopticdata.com/v2/stations/timeseries?"
  ELSE IF service = Latest THEN "https://api.synopticdata.com/v2/stations/latest?"
  ELSE IF service = NearestTime THEN "https://api.synopticdata.com/v2/stations/nearesttime?"
  ELSE "https://api.synopticdata.com/v2/stations/precip?"

stn_keys ==
  {"stid", "state", "country", "nwszone", "nwsfirezone", "cwa", "gacc",
   "subgacc", "county", "vars", "varsoperator", "network", "radius", "bbox",
   "status", "complete", "fields", "networkimportance", "spacing"}

\* sys.exit(text.format(keys)): SystemExit with that message
NoErr == [exc |-> "", text |-> "", keys |-> {}]
SystemExit(text, keys) == [exc |-> "SystemExit", text |-> text, keys |-> keys]
Raise(exc) == [exc |-> exc, text |-> "", keys |-> {}]

\* the value of a result attribute that was never assigned
UnsetDF == [names |-> <<"unset">>, columns |-> <<>>, rows |-> <<>>]

\* the attributes of an instance that was not constructed
NoObj ==
  [live |-> FALSE, token |-> "", service |-> "", url0 |-> "", station |-> <<>>,
   time |-> "", opt_params |-> "", pmode |-> FALSE, qc_flag |-> FALSE,
   data_df |-> UnsetDF, meta_df |-> UnsetDF, qc_df |-> UnsetDF,
   variable_position |-> <<>>, variable_derived_from |-> <<>>]

\* faulty key tests, for comparison: every station key is taken as invalid,
\* and the time keys are tested against the list of TimeSeries
invalid_stns_m(station) == Keys(station)
invalid_stns(station) == Keys(station) \ stn_keys

invalid_time_m(service, time) == Keys(time) \ valid_time_keys(TimeSeries)
invalid_time(service, time) == Keys(time) \ valid_time_keys(service)

\* a faulty constructor, for comparison: an empty station mapping passes
init_any_station(token, service, station, time, opt_params, h) ==
  IF service \notin Services
    THEN [err |-> SystemExit("Invalid Service", {}), self |-> NoObj]
  ELSE IF Cardinality(invalid_stns(station)) > 0
    THEN [err |-> SystemExit("Invalid station parameters", invalid_stns(station)),
          self |-> NoObj]
  ELSE IF Cardinality(invalid_time(service, h[time])) > 0
    THEN [err |-> SystemExit("Invalid time parameters", invalid_time(service, h[time])),
          self |-> NoObj]
  ELSE [err |-> NoErr,
        self |-> [NoObj EXCEPT !.live = TRUE, !.token = token, !.service = service,
                               !.url0 = url0(service), !.station = station,
                               !.time = time, !.opt_params = opt_params]]

\* __init__(self, token, service, station, time, opt_params); time and
\* opt_params are references into h, station is copied
__init__(token, service, station, time, opt_params, h) ==
  IF service \notin Services
    THEN [err |-> SystemExit("Invalid Service", {}), self |-> NoObj]
  ELSE IF station # <<>>
    THEN IF Cardinality(invalid_stns(station)) > 0
      THEN [err |-> SystemExit("Invalid station parameters", invalid_stns(station)),
            self |-> NoObj]
      ELSE IF Cardinality(invalid_time(service, h[time])) > 0
        THEN [err |-> SystemExit("Invalid time parameters",
                                 invalid_time(service, h[time])),
              self |-> NoObj]
        ELSE [err |-> NoErr,
              self |-> [NoObj EXCEPT !.live = TRUE, !.token = token,
                                     !.service = service, !.url0 = url0(service),
                                     !.station = station, !.time = time,
                                     !.opt_params = opt_params]]
    ELSE [err |-> SystemExit("At least one station parameter is required", {}),
          self |-> NoObj]

\* lines 350-352: the default of derived precipitation, written into the
\* option dict itself
inject_precip(self, h) ==
  IF /\ Has(self.station, "vars")
     /\ self.service = TimeSeries
     /\ py_in("precip", Get(self.station, "vars"))
     /\ ~Has(h[self.opt_params], "precip")
    THEN [h EXCEPT ![self.opt_params] = Put(@, "precip", PyInt("1"))]
    ELSE h

\* lines 355-358
pmode_of(opt_params) == Has(opt_params, "pmode")

\* a faulty flag, for comparison: 'off' for qc_flag does not override qc
qc_flag_any_on(opt_params) ==
  \/ <<"qc_flag", PyStr(<<"on">>)>> \in Items(opt_params)
  \/ <<"qc", PyStr(<<"on">>)>> \in Items(opt_params)
\* lines 361-366
qc_flag_of(opt_params) ==
  IF <<"qc_flag", PyStr(<<"on">>)>> \in Items(opt_params) THEN TRUE
  ELSE IF /\ <<"qc", PyStr(<<"on">>)>> \in Items(opt_params)
          /\ <<"qc_flag", PyStr(<<"off">>)>> \notin Items(opt_params) THEN TRUE
  ELSE FALSE

\* lines 369-374: station, then time, then options, then the token (an
\* update with an empty dict, which lines 370 and 372 skip, changes nothing)
qsp_dic(self, h) ==
  Put(Update(Update(self.station, h[self.time]), h[self.opt_params]),
      "token", PyStr(<<self.token>>))

\* lines 375-376: self.url
url_of(self, h) == [base |-> self.url0, query |-> build_query_string(qsp_dic(self, h))]

NoUrl == [base |-> "", query |-> <<>>]
NoRet == [n |-> 0, data_df |-> UnsetDF, unit_dic |-> <<>>, meta_df |-> UnsetDF,
          qc_df |-> UnsetDF]

Failed(self, exc, walked) ==
  [self |-> self, err |-> Raise(exc), walked |-> walked, ret |-> NoRet]

\* lines 394-400: the tables of the response
tables(self, resp) ==
  IF self.service # Precip
    THEN return_stn_df(resp.STATION, "%Y-%m-%d %H:%M", self.qc_flag, self.service)
    ELSE return_precip_df(resp.STATION, "%Y-%m-%d %H:%M", self.pmode)

\* lines 396-398: the sensor details, which a Precip request leaves as they are
details(self, resp) ==
  IF self.service # Precip THEN variable_details(resp.STATION)
  ELSE [exc |-> "", position |-> self.variable_position,
        derived_from |-> self.variable_derived_from]

\* lines 416-424: the tuple returned and the attributes set
returned(self, tab, unit_dic, qc_df) ==
  IF self.qc_flag
    THEN IF self.service = Precip THEN Failed(self, "UnboundLocalError", tab.walked)
         ELSE [self |-> [self EXCEPT !.qc_df = qc_df], err |-> NoErr,
               walked |-> tab.walked,
               ret |-> [n |-> 4, data_df |-> tab.data_df, unit_dic |-> unit_dic,
                        meta_df |-> tab.meta_df, qc_df |-> qc_df]]
    ELSE [self |-> self, err |-> NoErr, walked |-> tab.walked,
          ret |-> [n |-> 3, data_df |-> tab.data_df, unit_dic |-> unit_dic,
                   meta_df |-> tab.meta_df, qc_df |-> UnsetDF]]

\* a faulty reset, for comparison: the QC table is returned as it was built
qc_as_built(qc_df) == qc_df
\* lines 419-420: a QC table without columns is reset to None
qc_or_none(qc_df) == IF Len(qc_df.columns) = 0 THEN NoDF ELSE qc_df

\* lines 397-424 once the tables and the details are there
store(self, resp, tab, det) ==
  IF ~resp.UNITS.present
    THEN Failed([self EXCEPT !.variable_position = det.position,
                             !.variable_derived_from = det.derived_from,
                             !.data_df = tab.data_df, !.meta_df = tab.meta_df],
                "KeyError", tab.walked)
    ELSE returned([self EXCEPT !.variable_position = det.position,
                               !.variable_derived_from = det.derived_from,
                               !.data_df = tab.data_df, !.meta_df = tab.meta_df],
                  tab,
                  unit_dic_of(tab.data_df.columns, resp.UNITS.d),
                  qc_or_none(tab.qc_df))

\* a faulty order, for comparison: the tables are stored before a failure
\* of the normalizer is raised
normalize_storing(self, resp, tab, det) ==
  IF tab.exc # ""
    THEN Failed([self EXCEPT !.data_df = tab.data_df, !.meta_df = tab.meta_df],
                tab.exc, tab.walked)
  ELSE IF det.exc # "" THEN Failed(self, det.exc, tab.walked)
  ELSE store(self, resp, tab, det)
normalize_with(self, resp, tab, det) ==
  IF tab.exc # "" THEN Failed(self, tab.exc, tab.walked)
  ELSE IF det.exc # "" THEN Failed(self, det.exc, tab.walked)
  ELSE store(self, resp, tab, det)

\* lines 394-424: the tables of a successful response
normalize(self, resp) == normalize_with(self, resp, tables(self, resp), details(self, resp))

\* a faulty response test, for comparison: only code 2 is taken as a refusal
respond_only_code_2(self, resp) ==
  IF resp.code = 2
    THEN [self |-> self, err |-> SystemExit(resp.msg, {}), walked |-> 0, ret |-> NoRet]
    ELSE normalize(self, resp)
\* lines 389-424: the check of SUMMARY.RESPONSE_CODE, then the tables
respond(self, resp) ==
  IF resp.code # 1
    THEN [self |-> self, err |-> SystemExit(resp.msg, {}), walked |-> 0, ret |-> NoRet]
    ELSE normalize(self, resp)

\* lines 375-424: the request is sent and the reply handled
send(self, h, resp, url, r) ==
  IF resp.transport
    THEN [self |-> self, h |-> h, err |-> Raise("URLError"), net |-> 1,
          url |-> url, walked |-> 0, ret |-> NoRet]
    ELSE [self |-> r.self, h |-> h, err |-> r.err, net |-> 1, url |-> url,
          walked |-> r.walked, ret |-> r.ret]

\* lines 355-424 with the options as lines 350-352 left them
request_with(self, h, resp) == send(self, h, resp, url_of(self, h), respond(self, resp))

flags(self, h) ==
  [self EXCEPT !.pmode = pmode_of(h[self.opt_params]),
               !.qc_flag = qc_flag_of(h[self.opt_params])]

\* request_data(self) against the reply resp of the service: the instance
\* and the heap after the call, the calls made, the outcome
request_data(self, h, resp) ==
  IF /\ Has(self.station, "vars")
     /\ self.service = TimeSeries
     /\ py_in_raises(Get(self.station, "vars"))
    THEN [self |-> self, h |-> h, err |-> Raise("TypeError"), net |-> 0,
          url |-> NoUrl, walked |-> 0, ret |-> NoRet]
    ELSE request_with(flags(self, inject_precip(self, h)), inject_precip(self, h), resp)

\* ---------------------------------------------------------- estimate_usage

\* lines 269-289: the metadata query before the token is added; old tells
\* whether the start of the period lies more than 30 days back (a 'recent'
\* period of the callers here, an hour or two, never does)
meta_dic(self, h, old) ==
  IF h[self.time] = <<>>
    THEN [exc |-> "", d |-> Put(self.station, "sensorvars", PyInt("1"))]
  ELSE IF Has(h[self.time], "recent") \/ ~Has(h[self.time], "start")
    THEN [exc |-> "",
          d |-> Put(Put(self.station, "status", PyStr(<<"active">>)),
                    "sensorvars", PyInt("1"))]
  ELSE IF ~Has(h[self.time], "end") THEN [exc |-> "KeyError", d |-> <<>>]
  ELSE [exc |-> "",
        d |-> Put(Put(self.station,
                      IF old THEN "obrange" ELSE "status",
                      IF old THEN PyList(<<PyStr(<<"20220601">>), PyStr(<<"20220602">>)>>)
                      ELSE PyStr(<<"active">>)),
                  "sensorvars", PyInt("1"))]

\* the sum of len(station['SENSOR_VARIABLES'].keys()) of lines 318-320
RECURSIVE count_sensor_vars(_)
count_sensor_vars(stations) ==
  IF stations = <<>> THEN [exc |-> "", n |-> 0]
  ELSE IF ~stations[1].SENSOR_VARIABLES.present THEN [exc |-> "KeyError", n |-> 0]
  ELSE [count_sensor_vars(Tail(stations))
          EXCEPT !.n = @ + Len(stations[1].SENSOR_VARIABLES.d)]

\* lines 313-320: len(self.station['vars'].split(",")), which only a str
\* has, or the count over the metadata
num_vars(station, stations) ==
  IF Has(station, "vars")
    THEN IF Get(station, "vars").t = "str"
           THEN [exc |-> "",
                 n |-> 1 + Cardinality({j \in DOMAIN Get(station, "vars").s :
                                          Get(station, "vars").s[j] = ","})]
           ELSE [exc |-> "AttributeError", n |-> 0]
    ELSE count_sensor_vars(stations)

NoEst == [printed |-> FALSE, num_stns |-> 0, num_vars |-> 0]

\* line 300: self.metadata is no attribute of the instance, so evaluating
\* the argument of sys.exit raises AttributeError
refuse(resp) == Raise("AttributeError")

\* lines 290-331 with the metadata query md and the variable count nv
estimate_with(self, resp, md, nv) ==
  IF md.exc # ""
    THEN [err |-> Raise(md.exc), net |-> 0, url |-> NoUrl, est |-> NoEst]
  ELSE IF resp.transport
    THEN [err |-> Raise("URLError"), net |-> 1, est |-> NoEst,
          url |-> [base |-> "https://api.synopticdata.com/v2/stations/metadata?",
                   query |-> build_query_string(Put(md.d, "token", PyStr(<<self.token>>)))]]
  ELSE [err |-> IF resp.code # 1 THEN refuse(resp)
                ELSE IF nv.exc # "" THEN Raise(nv.exc) ELSE NoErr,
        net |-> 1,
        url |-> [base |-> "https://api.synopticdata.com/v2/stations/metadata?",
                 query |-> build_query_string(Put(md.d, "token", PyStr(<<self.token>>)))],
        est |-> IF resp.code # 1 \/ nv.exc # "" THEN NoEst
                ELSE [printed |-> TRUE, num_stns |-> Len(resp.STATION),
                      num_vars |-> nv.n]]

\* estimate_usage(self) against the reply resp of the metadata service
estimate_usage(self, h, resp, old) ==
  estimate_with(self, resp, meta_dic(self, h, old), num_vars(self.station, resp.STATION))

\* ---------------------------------------------------- the caller's arguments

S(tok) == PyStr(<<tok>>)

StationArgs ==
  { <<[k |-> "stid", v |-> S("KSLC")],
      [k |-> "vars", v |-> PyList(<<PyStr(<<"air_temp">>), PyStr(<<"wind_speed">>)>>)]>>,
    <<[k |-> "stid", v |-> PyList(<<PyStr(<<"KMSO">>), PyStr(<<"KSLC">>)>>)],
      [k |-> "vars", v |-> PyStr(<<"air_temp", ",", "precip", "_accum">>)]>>,
    <<[k |-> "stid", v |-> S("KSLC")],
      [k |-> "vars", v |-> PyList(<<PyStr(<<"air_temp">>), PyStr(<<"precip", "_accum">>)>>)]>>,
    <<[k |-> "radius", v |-> PyList(<<PyStr(<<"KMSO">>), PyInt("60")>>)],
      [k |-> "vars", v |-> PyList(<<PyStr(<<"precip">>)>>)]>>,
    <<>>,
    <<[k |-> "stids", v |-> PyList(<<PyStr(<<"TT350">>), PyStr(<<"E0591">>)>>)]>>,
    <<[k |-> "stid", v |-> S("KSLC")], [k |-> "bogus", v |-> S("x")],
      [k |-> "county", v |-> S("missoula")], [k |-> "name", v |-> S("y")]>> }

TimeArgs ==
  { <<[k |-> "start", v |-> PyInt("202206010000")],
      [k |-> "end", v |-> PyInt("202206020000")]>>,
    <<[k |-> "recent", v |-> PyInt("60")]>>,
    <<[k |-> "within", v |-> PyInt("120")]>>,
    <<[k |-> "attime", v |-> PyInt("202006010000")],
      [k |-> "within", v |-> PyInt("120")]>>,
    <<>>,
    <<[k |-> "start", v |-> PyInt("202206010000")],
      [k |-> "minmax", v |-> PyInt("7")], [k |-> "bogus", v |-> PyInt("1")]>> }

OptArgs ==
  { <<>>,
    <<[k |-> "precip", v |-> PyInt("0")]>>,
    <<[k |-> "qc", v |-> S("on")],
      [k |-> "units", v |-> PyList(<<PyStr(<<"speed", "|", "mph">>), PyStr(<<"temp", "|", "F">>)>>)]>>,
    <<[k |-> "stid", v |-> S("KMSO")], [k |-> "token", v |-> S("other")]>>,
    <<[k |-> "qc", v |-> S("on")], [k |-> "qc_flag", v |-> S("off")]>>,
    <<[k |-> "qc_flag", v |-> S("on")]>>,
    <<[k |-> "pmode", v |-> S("intervals")], [k |-> "interval", v |-> PyInt("4")]>> }

\* an argument the call leaves out takes the default of line 215
Given(d) == [given |-> TRUE, d |-> d]
Default == [given |-> FALSE, d |-> <<>>]

ServiceArgs ==
  Services \cup {"Timeseries", "timeseries", "Nearesttime", "nearestTime", "latest"}

\* key=value pairs a caller stores into a dict it passed in
TimeEdits == { [k |-> "within", v |-> PyInt("120")] }

\* ------------------------------------------------------- the service's replies

\* LONGITUDE, LATITUDE and ELEVATION as the service sends them: numeric strings
GoodFields == <<JStr("-111"), JStr("40"), JStr("1288")>>

Present(d) == [present |-> TRUE, d |-> d]
Missing == [present |-> FALSE, d |-> <<>>]

AirTemp == <<"air_temp", "_set_1">>

SensorVars ==
  Present(<<[k |-> "air_temp",
             v |-> <<[k |-> AirTemp,
                      v |-> [position |-> JStr("40"), derived_from |-> Absent]]>>]>>)

\* a TimeSeries station record observed at the dates numbered js
TsStation(stid, m, js, qc) ==
  [STID |-> stid, LONGITUDE |-> m[1], LATITUDE |-> m[2], ELEVATION |-> m[3],
   OBSERVATIONS |->
     Present(<<[k |-> DateKey, v |-> [n \in DOMAIN js |-> JStr(DateStrings[js[n]])]],
               [k |-> AirTemp, v |-> [n \in DOMAIN js |-> Num(10 + n)]]>>),
   QC |-> IF qc THEN Present(<<[k |-> AirTemp, v |-> [n \in DOMAIN js |-> Null]]>>)
          ELSE Missing,
   SENSOR_VARIABLES |-> SensorVars]

\* a Latest or NearestTime station record: one (value, date_time) per variable
LatestStation(stid, m, j) ==
  [STID |-> stid, LONGITUDE |-> m[1], LATITUDE |-> m[2], ELEVATION |-> m[3],
   OBSERVATIONS |-> Present(<<[k |-> <<"air_temp", "_value_1">>,
                               v |-> [value |-> Num(10),
                                      date_time |-> JStr(DateStrings[j])]]>>),
   QC |-> Missing,
   SENSOR_VARIABLES |-> SensorVars]

\* a Precip station record, in the shape the request's pmode selects
PrecipStation(stid, m, pmode) ==
  [STID |-> stid, LONGITUDE |-> m[1], LATITUDE |-> m[2], ELEVATION |-> m[3],
   OBSERVATIONS |->
     Present(IF pmode
       THEN [nested |-> TRUE, list |-> TRUE,
             recs |-> <<<<[k |-> <<"total">>, v |-> Num(5)],
                          [k |-> <<"interval">>, v |-> Num(1)],
                          [k |-> <<"first_report">>, v |-> JStr(DateStrings[1])],
                          [k |-> <<"last_report">>, v |-> JStr(DateStrings[2])],
                          [k |-> <<"report_type">>, v |-> JStr("precip_accum")]>>>>]
       ELSE [nested |-> FALSE, list |-> FALSE,
             recs |-> <<<<[k |-> <<"total_precip_value_1">>, v |-> Num(5)],
                          [k |-> <<"ob_start_time_1">>, v |-> JStr(DateStrings[1])],
                          [k |-> <<"ob_end_time_1">>, v |-> JStr(DateStrings[2])]>>>>]),
   QC |-> Missing,
   SENSOR_VARIABLES |-> SensorVars]

Units == Present(<<[k |-> <<"air_temp">>, v |-> "Celsius"],
                   [k |-> <<"precipitation">>, v |-> "Millimeters"]>>)

Reply(stations) ==
  [transport |-> FALSE, code |-> 1, msg |-> "OK", STATION |-> stations, UNITS |-> Units]
Refusal(code, msg) ==
  [transport |-> FALSE, code |-> code, msg |-> msg, STATION |-> <<>>, UNITS |-> Missing]
NoReply ==
  [transport |-> TRUE, code |-> 0, msg |-> "", STATION |-> <<>>, UNITS |-> Missing]
Stids == {"D6863", "KMSO", "KSLC"}

\* the station record of stid in the shape of the service, with the
\* metadata fields m
StationWith(service, pmode, stid, m) ==
  IF service = TimeSeries THEN TsStation(stid, m, <<2, 1>>, stid = "KSLC")
  ELSE IF service = Precip THEN PrecipStation(stid, m, pmode)
  ELSE LatestStation(stid, m, 1)

\* an observation block without any field
EmptyBlock(service) ==
  IF service = Precip THEN [nested |-> FALSE, list |-> FALSE, recs |-> << <<>> >>]
  ELSE <<>>

\* the replies a request of the service may get
Replies(service, pmode) ==
  { NoReply,
    Refusal(2, "No stations found for this request."),
    Refusal(200, "Authentication failed."),
    Reply(<<StationWith(service, pmode, "KSLC", GoodFields)>>),
    Reply(<<StationWith(service, pmode, "KSLC", GoodFields),
            StationWith(service, pmode, "KMSO", GoodFields)>>),
    Reply(<<StationWith(service, pmode, "KSLC", GoodFields),
            [StationWith(service, pmode, "KMSO", GoodFields)
               EXCEPT !.OBSERVATIONS = Missing]>>),
    Reply(<<StationWith(service, pmode, "KSLC", GoodFields),
            [StationWith(service, pmode, "KMSO", GoodFields)
               EXCEPT !.OBSERVATIONS = Present(EmptyBlock(service))]>>) }

\* ----------------------------------------------------------------- bounds

MaxStations == 2
MaxObs == 2
MaxUnits == 3

\* ------------------------------------------------------------ the instances

Insts == {1, 2}
TimeSlot(i) == IF i = 1 THEN "time1" ELSE "time2"
OptSlot(i) == IF i = 1 THEN "opt1" ELSE "opt2"
\* the dicts of the defaults time={} and opt_params={} of line 215, made
\* once, and the dicts the callers pass in
Refs == {"dflt_time", "dflt_opt", "time1", "opt1", "time2", "opt2"}

\* the station, time and option dicts of a descriptor
Dicts(self, h) ==
  [station |-> self.station, time |-> h[self.time], opt_params |-> h[self.opt_params]]
\* the record of the last operation: pre holds the dicts of the descriptor
\* when the operation began
NoOut ==
  [op |-> "", i |-> 0,
   args |-> [token |-> "", service |-> "", station |-> <<>>, time |-> Default,
             opt_params |-> Default],
   pre |-> [station |-> <<>>, time |-> <<>>, opt_params |-> <<>>],
   err |-> NoErr, net |-> 0, url |-> NoUrl, walked |-> 0, ret |-> NoRet,
   resp |-> Refusal(0, ""), est |-> NoEst]
NoNorm == [fn |-> "", service |-> "", qc_flag |-> FALSE, pmode |-> FALSE,
           data |-> <<>>,
           res |-> [exc |-> "", walked |-> 0, data_df |-> UnsetDF, meta_df |-> UnsetDF,
                    qc_df |-> UnsetDF]]

Init ==
  /\ obj = [i \in Insts |-> NoObj]
  /\ heap = [r \in Refs |-> <<>>]
  /\ out = NoOut
  /\ norm = NoNorm

\* sys.exit and an uncaught exception end the script: nothing more happens
\* in this run
Running == out.err.exc = ""

\* SynopticData(token, service, station[, time[, opt_params]]) with the
\* arguments drawn from the given sets
Constructed(i, token, service, station, time, opt_params, h1, r) ==
  /\ obj' = [obj EXCEPT ![i] = r.self]
  /\ heap' = IF r.err.exc = "" THEN h1 ELSE heap
  /\ out' = [NoOut EXCEPT !.op = "__init__", !.i = i, !.err = r.err,
                          !.args = [token |-> token, service |-> service,
                                    station |-> station, time |-> time,
                                    opt_params |-> opt_params]]
ConstructWith(i, services, stations, times, opts) ==
  /\ Running
  /\ ~obj[i].live
  /\ \E token \in {"demotoken"}, service \in services, station \in stations,
        time \in {Given(d) : d \in times} \cup {Default},
        opt_params \in {Given(d) : d \in opts} \cup {Default} :
       \E h1 \in {[heap EXCEPT ![TimeSlot(i)] = IF time.given THEN time.d ELSE @,
                                ![OptSlot(i)] = IF opt_params.given THEN opt_params.d
                                                ELSE @]} :
         \E r \in {__init__(token, service, station,
                             IF time.given THEN TimeSlot(i) ELSE "dflt_time",
                             IF opt_params.given THEN OptSlot(i) ELSE "dflt_opt",
                             h1)} :
           Constructed(i, token, service, station, time, opt_params, h1, r)
  /\ UNCHANGED norm

Construct(i) == ConstructWith(i, ServiceArgs, StationArgs, TimeArgs, OptArgs)

\* a mapping where __init__ expects the service name: it equals none of the
\* four names of lines 217-229
AMapping == "{...}"

\* SynopticData(service, station, time[, opt_params]), the call of the
\* tutorial and the tests: line 215 binds the arguments by position, the
\* service name to token, the station mapping to service, the time mapping
\* to station and the options, when given, to time
ConstructNoToken(i) ==
  /\ Running
  /\ ~obj[i].live
  /\ \E service \in Services, station \in StationArgs, time \in TimeArgs,
        opt_params \in {Given(d) : d \in {<<>>, <<[k |-> "precip", v |-> PyInt("1")]>>}}
                         \cup {Default} :
       \E h1 \in {[heap EXCEPT ![TimeSlot(i)] = IF opt_params.given THEN opt_params.d
                                                ELSE @]} :
         \E r \in {__init__(service, AMapping, time,
                             IF opt_params.given THEN TimeSlot(i) ELSE "dflt_time",
                             "dflt_opt", h1)} :
           /\ obj' = [obj EXCEPT ![i] = r.self]
           /\ heap' = IF r.err.exc = "" THEN h1 ELSE heap
           /\ out' = [NoOut EXCEPT !.op = "SynopticData(service, station, time)",
                                   !.i = i, !.err = r.err,
                                   !.args = [token |-> "", service |-> service,
                                             station |-> station, time |-> Given(time),
                                             opt_params |-> opt_params]]
  /\ UNCHANGED norm

Requested(i, resp, r) ==
  /\ obj' = [obj EXCEPT ![i] = r.self]
  /\ heap' = r.h
  /\ out' = [NoOut EXCEPT !.op = "request_data", !.i = i, !.err = r.err,
                          !.pre = Dicts(obj[i], heap),
                          !.net = r.net, !.url = r.url, !.walked = r.walked,
                          !.ret = r.ret, !.resp = resp]
\* instance.request_data(), the service replying resp
RequestData(i) ==
  /\ Running
  /\ obj[i].live
  /\ \E resp \in Replies(obj[i].service, pmode_of(heap[obj[i].opt_params])) :
       \E r \in {request_data(obj[i], heap, resp)} : Requested(i, resp, r)
  /\ UNCHANGED norm

\* the replies of the metadata service: no connection, a refusal, one or two
\* station records with their sensor variables
MetaReplies ==
  { NoReply,
    Refusal(2, "No stations found for this request."),
    Reply(<<StationWith(TimeSeries, FALSE, "KSLC", GoodFields)>>),
    Reply(<<StationWith(TimeSeries, FALSE, "KSLC", GoodFields),
            StationWith(TimeSeries, FALSE, "KMSO", GoodFields)>>) }

\* instance.estimate_usage(), the metadata service replying resp
EstimateUsage(i) ==
  /\ Running
  /\ obj[i].live
  /\ \E resp \in MetaReplies, old \in BOOLEAN :
       \E r \in {estimate_usage(obj[i], heap, resp, old)} :
         out' = [NoOut EXCEPT !.op = "estimate_usage", !.i = i, !.err = r.err,
                              !.pre = Dicts(obj[i], heap), !.net = r.net,
                              !.url = r.url, !.resp = resp, !.est = r.est]
  /\ UNCHANGED <<obj, heap, norm>>

\* the instance is dropped; the dicts of the defaults live on
Drop(i) ==
  /\ Running
  /\ obj[i].live
  /\ obj' = [obj EXCEPT ![i] = NoObj]
  /\ heap' = [heap EXCEPT ![TimeSlot(i)] = <<>>, ![OptSlot(i)] = <<>>]
  /\ out' = [NoOut EXCEPT !.op = "del", !.i = i]
  /\ UNCHANGED norm

\* the script is run again, in a new process
Restart ==
  /\ ~Running
  /\ obj' = [i \in Insts |-> NoObj]
  /\ heap' = [r \in Refs |-> <<>>]
  /\ out' = NoOut
  /\ UNCHANGED norm

Next ==
  \/ \E i \in {1} :
       \/ Construct(i)
       \/ ConstructNoToken(i)
       \/ RequestData(i)
       \/ EstimateUsage(i)
       \/ Drop(i)
  \/ Restart

\* a script that constructs descriptors, requests and drops them
Spec == Init /\ [][Next]_vars

\* ------------------------------------------- reuse of one descriptor

ReuseStations ==
  { <<[k |-> "stid", v |-> S("KSLC")],
      [k |-> "vars", v |-> PyList(<<PyStr(<<"air_temp">>), PyStr(<<"wind_speed">>)>>)]>>,
    <<[k |-> "stid", v |-> PyList(<<PyStr(<<"KMSO">>), PyStr(<<"KSLC">>)>>)],
      [k |-> "vars", v |-> PyStr(<<"air_temp", ",", "precip", "_accum">>)]>>,
    <<>>,
    <<[k |-> "stid", v |-> S("KSLC")], [k |-> "bogus", v |-> S("x")]>> }
ReuseTimes ==
  { <<[k |-> "start", v |-> PyInt("202206010000")],
      [k |-> "end", v |-> PyInt("202206020000")]>>,
    <<[k |-> "minmax", v |-> PyInt("7")]>> }
ReuseOpts ==
  { <<>>, <<[k |-> "qc", v |-> S("on")]>> }

ConstructReuse(i) ==
  ConstructWith(i, {TimeSeries, Latest}, ReuseStations, ReuseTimes, ReuseOpts)

\* instance.station = station
SetStation(i) ==
  /\ Running
  /\ obj[i].live
  /\ \E station \in ReuseStations :
       /\ obj' = [obj EXCEPT ![i].station = station]
       /\ out' = [NoOut EXCEPT !.op = "set", !.i = i]
  /\ UNCHANGED <<heap, norm>>

\* instance.time = time
SetTime(i) ==
  /\ Running
  /\ obj[i].live
  /\ \E time \in ReuseTimes :
       /\ obj' = [obj EXCEPT ![i].time = TimeSlot(i)]
       /\ heap' = [heap EXCEPT ![TimeSlot(i)] = time]
       /\ out' = [NoOut EXCEPT !.op = "set", !.i = i]
  /\ UNCHANGED norm

\* instance.opt_params = opt_params
SetOptParams(i) ==
  /\ Running
  /\ obj[i].live
  /\ \E opt_params \in ReuseOpts :
       /\ obj' = [obj EXCEPT ![i].opt_params = OptSlot(i)]
       /\ heap' = [heap EXCEPT ![OptSlot(i)] = opt_params]
       /\ out' = [NoOut EXCEPT !.op = "set", !.i = i]
  /\ UNCHANGED norm

\* time[k] = v by the caller, on the dict the instance holds by reference
EditTime(i) ==
  /\ Running
  /\ obj[i].live
  /\ \E e \in TimeEdits :
       /\ heap' = [heap EXCEPT ![obj[i].time] = Put(@, e.k, e.v)]
       /\ out' = [NoOut EXCEPT !.op = "set", !.i = i]
  /\ UNCHANGED <<obj, norm>>

NextReuse ==
  \/ \E i \in {1} :
       \/ ConstructReuse(i)
       \/ SetStation(i)
       \/ SetTime(i)
       \/ SetOptParams(i)
       \/ EditTime(i)
       \/ RequestData(i)
       \/ Drop(i)
  \/ Restart

\* a script that reuses a descriptor: it reassigns the station, time and
\* option fields between requests
SpecReuse == Init /\ [][NextReuse]_vars

\* ------------------------------------------------------- two descriptors

\* SynopticData(token, 'TimeSeries', station, time[, opt_params]) for a
\* station with or without a precipitation variable
ConstructTwo(i) ==
  ConstructWith(i, {TimeSeries},
                {<<[k |-> "stid", v |-> S("KSLC")],
                   [k |-> "vars", v |-> PyStr(<<"air_temp", ",", "precip", "_accum">>)]>>,
                 <<[k |-> "stid", v |-> S("KMSO")],
                   [k |-> "vars", v |-> PyStr(<<"air_temp">>)]>>},
                {<<[k |-> "recent", v |-> PyInt("60")]>>},
                {<<>>})

NextTwo ==
  \/ \E i \in Insts :
       \/ ConstructTwo(i)
       \/ RequestData(i)
       \/ EstimateUsage(i)
  \/ Restart

\* a script that holds two descriptors at a time
SpecTwo == Init /\ [][NextTwo]_vars

\* ------------------------------------------- the normalizers on their own

\* the sequences of length n of distinct elements of Elems
Distinct(Elems, n) ==
  {q : q \in {f \in [1..n -> Elems] : \A a, b \in 1..n : a # b => f[a] # f[b]}}

\* the date_time array of a station: distinct dates by number, in any order
DateSeqs == UNION {Distinct(DOMAIN DateStrings, n) : n \in 0..MaxObs}

\* the three metadata fields of a record: at most one is not a numeric
\* string but a number, null, missing, another string or a list
MetaFields ==
  {GoodFields}
    \cup {[GoodFields EXCEPT ![f] = x] :
            f \in 1..3, x \in {Num(40), Null, Absent, JStr("abc"), JStr(""), JList}}

MetaStids == <<"KSLC", "KMSO", "D6863">>

\* norm keeps the input and the result of the one application of a run
Normalized(fn, service, qc_flag, pmode, data, res) ==
  /\ norm' = [fn |-> fn, service |-> service, qc_flag |-> qc_flag, pmode |-> pmode,
              data |-> data, res |-> res]
  /\ UNCHANGED <<obj, heap, out>>

\* the normalizer of the service applied to the STATION list data
Normalize(service, qc_flag, pmode, data) ==
  IF service = Precip
    THEN \E res \in {return_precip_df(data, "%Y-%m-%d %H:%M", pmode)} :
           Normalized("return_precip_df", service, FALSE, pmode, data, res)
    ELSE \E res \in {return_stn_df(data, "%Y-%m-%d %H:%M", qc_flag, service)} :
           Normalized("return_stn_df", service, qc_flag, FALSE, data, res)

\* return_stn_df on a TimeSeries STATION list
NormalizeTS ==
  /\ norm.fn = ""
  /\ \E n \in 0..MaxStations, qc_flag \in BOOLEAN :
       \E ids \in Distinct(Stids, n), js \in [1..n -> DateSeqs] :
         \E data \in {[k \in 1..n |-> TsStation(ids[k], GoodFields, js[k],
                                                 ids[k] = "KSLC")]} :
           Normalize(TimeSeries, qc_flag, FALSE, data)

\* the normalizer of a service on a STATION list one record of which, the
\* p-th, carries any of the metadata fields
NormalizeMeta ==
  /\ norm.fn = ""
  /\ \E n \in 1..MaxStations, service \in Services, pmode \in BOOLEAN :
       \E p \in 1..n, m \in MetaFields :
         \E data \in {[k \in 1..n |-> StationWith(service, pmode, MetaStids[k],
                                                   IF k = p THEN m ELSE GoodFields)]} :
           Normalize(service, FALSE, pmode, data)

\* the variables a Latest or NearestTime record may report, with the value
\* each reports

\* the observation blocks of a Latest or NearestTime record: one or both
\* variables in either order, each with a date of its own
LatestBlocks ==
  UNION {{[c \in 1..n |-> [k |-> vs[c],
                           v |-> [value |-> IF vs[c] = <<"air_temp", "_value_1">>
                                               THEN Num(10) ELSE Num(3),
                                  date_time |-> JStr(DateStrings[js[c]])]]] :
            vs \in Distinct({<<"air_temp", "_value_1">>, <<"wind_speed", "_value_1">>}, n),
            js \in [1..n -> 1..2]} : n \in 1..2}

\* return_stn_df on a Latest or NearestTime STATION list
NormalizeLatest ==
  /\ norm.fn = ""
  /\ \E n \in 1..MaxStations, service \in {Latest, NearestTime} :
       \E ids \in Distinct(Stids, n), obs \in [1..n -> LatestBlocks] :
         \E data \in {[k \in 1..n |->
                         [LatestStation(ids[k], GoodFields, 1)
                            EXCEPT !.OBSERVATIONS = Present(obs[k])]]} :
           Normalize(service, FALSE, FALSE, data)

\* the n-th precipitation record of a station: with pmode a total over the
\* period between two reports, of kind "totals", "intervals" (it has an
\* interval number) or "last" (it has accum_hours); without pmode the legacy
\* fields; rt tells whether the service added report_type
PrecipRecord(pmode, kind, n, rt) ==
  (IF pmode
     THEN <<[k |-> <<"total">>, v |-> Num(4 + n)]>>
            \o (IF kind = "intervals" THEN <<[k |-> <<"interval">>, v |-> Num(n)]>>
                ELSE IF kind = "last" THEN <<[k |-> <<"accum_hours">>, v |-> Num(n)]>>
                ELSE <<>>)
            \o <<[k |-> <<"first_report">>, v |-> JStr(DateStrings[n])],
                 [k |-> <<"last_report">>, v |-> JStr(DateStrings[n + 1])]>>
     ELSE <<[k |-> <<"total_precip_value_1">>, v |-> Num(4 + n)],
            [k |-> <<"ob_start_time_1">>, v |-> JStr(DateStrings[n])],
            [k |-> <<"ob_end_time_1">>, v |-> JStr(DateStrings[n + 1])]>>)
    \o (IF rt THEN <<[k |-> <<"report_type">>, v |-> JStr("precip_accum")]>> ELSE <<>>)

\* the OBSERVATIONS of a Precip station record: with pmode a list of one or
\* two records under 'precipitation', without it one record
PrecipBlocks(pmode) ==
  IF pmode
    THEN {[nested |-> TRUE, list |-> TRUE,
           recs |-> [n \in 1..len |-> PrecipRecord(TRUE, kind, n, rt)]] :
            kind \in {"totals", "intervals", "last"}, len \in 1..2, rt \in BOOLEAN}
    ELSE {[nested |-> FALSE, list |-> FALSE,
           recs |-> <<PrecipRecord(FALSE, "totals", 1, rt)>>] : rt \in BOOLEAN}

\* return_precip_df on a Precip STATION list
NormalizePrecip ==
  /\ norm.fn = ""
  /\ \E n \in 1..MaxStations, pmode \in BOOLEAN :
       \E obs \in [1..n -> PrecipBlocks(pmode)] :
         \E data \in {[k \in 1..n |->
                         [PrecipStation(MetaStids[k], GoodFields, pmode)
                            EXCEPT !.OBSERVATIONS = Present(obs[k])]]} :
           Normalize(Precip, FALSE, pmode, data)

\* the fields the service may give for a sensor: a position that is
\* numeric text, empty, a number, null or missing, and a lineage or none
SensorFields ==
  {[position |-> p, derived_from |-> f] :
     p \in {JStr("40"), JStr(""), Num(40), Null, Absent},
     f \in {JStr("wind_u"), Absent}}

\* variable_details on a STATION list: every record has the sensor
\* air_temp_set_1 with any of the fields and wind_speed_set_1 with an empty
\* position and a lineage
NormalizeDetails ==
  /\ norm.fn = ""
  /\ \E n \in 1..MaxStations :
       \E c \in [1..n -> SensorFields] :
         \E data \in {[k \in 1..n |->
                         [TsStation(MetaStids[k], GoodFields, <<1>>, FALSE)
                            EXCEPT !.SENSOR_VARIABLES =
                              Present(<<[k |-> "air_temp",
                                         v |-> <<[k |-> AirTemp, v |-> c[k]]>>],
                                        [k |-> "wind_speed",
                                         v |-> <<[k |-> <<"wind_speed", "_set_1">>,
                                                  v |-> [position |-> JStr(""),
                                                         derived_from |-> JStr("wind_u")]]>>]>>)]]} :
           \E res \in {variable_details(data)} :
             Normalized("variable_details", "", FALSE, FALSE, data, res)

NextNorm ==
  NormalizeTS \/ NormalizeMeta \/ NormalizeLatest \/ NormalizePrecip \/ NormalizeDetails

\* the normalizer functions applied to the STATION list of a response
SpecNorm == Init /\ [][NextNorm]_vars

\* ------------------------------------------------------------ properties

\* the operation that has just run, and the descriptor it ran on
Built == out.op = "__init__" /\ out.args.service \in Services
Asked == out.op = "request_data"
Sent == Asked /\ out.net = 1
Now == Dicts(obj[out.i], heap)

\* the parameters of the URL's query, as (name, value) pairs
Params == {<<out.url.query[j].k, out.url.query[j].v>> : j \in DOMAIN out.url.query}

\* the text a value has in a query: a list is its elements, comma-joined
Text(v) == quote_plus(IF v.t = "list" THEN join(v.items) ELSE py_str(v))

C2_TimeKeysChecked ==
  (Built /\ Keys(out.args.time.d) \ valid_time_keys(out.args.service) # {})
    => /\ out.err.exc = "SystemExit"
       /\ out.net = 0
       /\ ~obj[out.i].live
       /\ (out.args.station # <<>> /\ Keys(out.args.station) \subseteq stn_keys)
            => out.err = SystemExit("Invalid time parameters",
                                    Keys(out.args.time.d)
                                      \ valid_time_keys(out.args.service))

C2_Witness ==
  /\ Built
  /\ out.args.service = Latest
  /\ Keys(out.args.station) = {"stid", "vars"}
  /\ Keys(out.args.time.d) = {"start", "minmax", "bogus"}
  /\ out.err = SystemExit("Invalid time parameters", {"start", "bogus"})

\* C3: every request_data call that reaches the network does so with a
\* non-empty station mapping whose keys are all in the station allow-list
\* and a time mapping whose keys are all in the allow-list of the service.
C3_RequestsCarryValidKeys ==
  Sent => /\ out.pre.station # <<>>
          /\ Keys(out.pre.station) \subseteq stn_keys
          /\ Keys(out.pre.time) \subseteq valid_time_keys(obj[out.i].service)

\* the endpoint of each service
Endpoint(service) ==
  IF service = TimeSeries THEN "https://api.synopticdata.com/v2/stations/timeseries?"
  ELSE IF service = Latest THEN "https://api.synopticdata.com/v2/stations/latest?"
  ELSE IF service = NearestTime
    THEN "https://api.synopticdata.com/v2/stations/nearesttime?"
  ELSE "https://api.synopticdata.com/v2/stations/precip?"

\* the value of key k in the request: the token's, else the options', else
\* the time mapping's, else the station mapping's
Winner(d, token, k) ==
  IF k = "token" THEN PyStr(<<token>>)
  ELSE IF Has(d.opt_params, k) THEN Get(d.opt_params, k)
  ELSE IF Has(d.time, k) THEN Get(d.time, k)
  ELSE Get(d.station, k)

AllKeys(d) == Keys(d.station) \cup Keys(d.time) \cup Keys(d.opt_params) \cup {"token"}

\* every entry of the three mappings and the token, as a query parameter
AllEntries(d, token) ==
  {<<"token", Text(PyStr(<<token>>))>>}
    \cup {<<d.station[j].k, Text(d.station[j].v)>> : j \in DOMAIN d.station}
    \cup {<<d.time[j].k, Text(d.time[j].v)>> : j \in DOMAIN d.time}
    \cup {<<d.opt_params[j].k, Text(d.opt_params[j].v)>> : j \in DOMAIN d.opt_params}

\* C4: the URL of a request is the endpoint of the service followed by a
\* query with exactly one parameter for every key of the station, time and
\* option mappings (the options as request_data leaves them, the precip=1 it
\* adds included) and the token; a key that several of them hold takes the
\* value of the last of station, time, options, token that holds it; a list
\* value is its elements joined with commas.
C4_QueryIsMergedMappings ==
  Sent => /\ out.url.base = Endpoint(obj[out.i].service)
          /\ Len(out.url.query) = Cardinality(AllKeys(Now))
          /\ Params = {<<k, Text(Winner(Now, obj[out.i].token, k))>> : k \in AllKeys(Now)}

C4_Witness ==
  /\ Sent
  /\ obj[out.i].service = NearestTime
  /\ <<"stid", S("KSLC")>> \in Items(Now.station)
  /\ <<"stid", S("KMSO")>> \in Items(Now.opt_params)
  /\ <<"stid", <<"KMSO">> >> \in Params
  /\ <<"stid", <<"KSLC">> >> \notin Params

\* C4 as stated: the parameters of the query are exactly the entries of the
\* station, time and option mappings the request began with and the token.
C4_QueryIsUnionOfEntries ==
  Sent => /\ out.url.base = Endpoint(obj[out.i].service)
          /\ Params = AllEntries(out.pre, obj[out.i].token)

\* whether a vars selector, a string or a list of names, has a variable with
\* "precip" in its name
NamesPrecip(v) ==
  IF v.t = "str" THEN "precip" \in Range(v.s)
  ELSE \E j \in DOMAIN v.items : "precip" \in Range(v.items[j].s)

\* C5: a TimeSeries request whose vars selector, string or list, names a
\* precipitation variable and whose options have no precip entry is sent
\* with precip=1; every other request carries the caller's precip entry if
\* there is one and none otherwise.
C5_PrecipDefault ==
  Sent =>
    IF /\ obj[out.i].service = TimeSeries
       /\ Has(out.pre.station, "vars")
       /\ NamesPrecip(Get(out.pre.station, "vars"))
       /\ ~Has(out.pre.opt_params, "precip")
      THEN <<"precip", <<"1">> >> \in Params
      ELSE \A q \in Params :
             q[1] = "precip" => /\ Has(out.pre.opt_params, "precip")
                                /\ q[2] = Text(Get(out.pre.opt_params, "precip"))

C5_Witness ==
  /\ Sent
  /\ obj[out.i].service = TimeSeries
  /\ <<"vars", PyStr(<<"air_temp", ",", "precip", "_accum">>)>> \in Items(out.pre.station)
  /\ ~Has(out.pre.opt_params, "precip")
  /\ <<"precip", <<"1">> >> \in Params

\* C6: after request_data the station, time and option mappings of the
\* descriptor, which are the caller's dictionaries, hold what they held
\* before the call.
C6_RequestLeavesMappings == Asked => Now = out.pre

\* C7: when the reply's RESPONSE_CODE is not 1, request_data ends in
\* SystemExit with the reply's RESPONSE_MESSAGE, returns no tables, reads no
\* station record and has made one network call.
C7_RefusalExits ==
  (Sent /\ ~out.resp.transport /\ out.resp.code # 1)
    => /\ out.err = SystemExit(out.resp.msg, {})
       /\ out.ret = NoRet
       /\ out.walked = 0
       /\ out.net = 1

C7_Witness ==
  /\ Sent
  /\ out.resp.code = 200
  /\ out.err = SystemExit("Authentication failed.", {})
  /\ out.ret.n = 0

\* the normalizer applied, and applied without an exception
Applied == norm.fn # ""
Returned ==
  Applied /\ norm.fn \in {"return_stn_df", "return_precip_df"} /\ norm.res.exc = ""
SeriesReturned == Returned /\ norm.fn = "return_stn_df" /\ norm.service = TimeSeries

\* the date_time array of a TimeSeries station record
DateTimes(rec) == Get(rec.OBSERVATIONS.d, DateKey)

\* the sum of the lengths of the date_time arrays of the records
RECURSIVE TotalDates(_)
TotalDates(data) ==
  IF data = <<>> THEN 0 ELSE Len(DateTimes(data[1])) + TotalDates(Tail(data))

\* the station keys of a table
StationKeys(df) == {df.rows[r].key[1] : r \in DOMAIN df.rows}

\* within each station the rows of the table are in ascending time order
TimeAscending(df) ==
  \A a, b \in DOMAIN df.rows :
    (a < b /\ df.rows[a].key[1] = df.rows[b].key[1])
      => df.rows[a].key[2] <= df.rows[b].key[2]

\* C8: the observation table of a TimeSeries response, its records in any
\* order, has as many rows as the date_time arrays of the records have
\* entries, one station key for every record whose date_time array is not
\* empty (a record without timestamps adds nothing to the table), and
\* within each station its rows in ascending order of time.
C8_SeriesTableShape ==
  SeriesReturned
    => /\ Len(norm.res.data_df.rows) = TotalDates(norm.data)
       /\ StationKeys(norm.res.data_df)
            = {norm.data[k].STID : k \in {j \in DOMAIN norm.data :
                                            DateTimes(norm.data[j]) # <<>>}}
       /\ TimeAscending(norm.res.data_df)

C8_Witness ==
  /\ SeriesReturned
  /\ Len(norm.data) = 2
  /\ norm.data[1].STID = "KSLC"
  /\ DateTimes(norm.data[1]) = <<JStr(DateStrings[3]), JStr(DateStrings[1])>>
  /\ DateTimes(norm.data[2]) = <<>>
  /\ StationKeys(norm.res.data_df) = {"KSLC"}
  /\ Len(norm.res.data_df.rows) = 2
  /\ norm.res.data_df.rows[1].key = <<"KSLC", 0>>

\* C8 as stated: the table of a response with N records has N station keys.
C8_OneKeyPerRecord ==
  SeriesReturned
    => /\ Len(norm.res.data_df.rows) = TotalDates(norm.data)
       /\ Cardinality(StationKeys(norm.res.data_df)) = Len(norm.data)
       /\ TimeAscending(norm.res.data_df)

\* C9: when the normalizer of any service returns, the metadata table is
\* indexed by stid, has the columns lon, lat and elev, and has one row for
\* each station record, in the order of the records, keyed by the record's
\* STID; a numeric string of the record is there as its number.
C9_OneMetaRowPerRecord ==
  Returned
    => /\ norm.res.meta_df.names = <<"stid">>
       /\ norm.res.meta_df.columns = <<"lon", "lat", "elev">>
       /\ Len(norm.res.meta_df.rows) = Len(norm.data)
       /\ \A k \in DOMAIN norm.data :
            /\ norm.res.meta_df.rows[k].key = <<norm.data[k].STID>>
            /\ Len(norm.res.meta_df.rows[k].cells) = 3
            /\ norm.data[k].LONGITUDE = JStr("-111")
                 => norm.res.meta_df.rows[k].cells[1] = Num(0 - 111)
            /\ norm.data[k].LATITUDE = JStr("40")
                 => norm.res.meta_df.rows[k].cells[2] = Num(40)
            /\ norm.data[k].ELEVATION = JStr("1288")
                 => norm.res.meta_df.rows[k].cells[3] = Num(1288)

C9_Witness ==
  /\ Returned
  /\ norm.service = Precip
  /\ Len(norm.data) = 2
  /\ norm.data[2].LATITUDE = Null
  /\ Len(norm.res.meta_df.rows) = 2
  /\ norm.res.meta_df.rows[2] = [key |-> <<"KMSO">>, cells |-> <<Num(0 - 111), None, Num(1288)>>]

\* a metadata field that is missing, null or not a number
NotNumeric(x) == x.t \in {"absent", "null", "list"} \/ (x.t = "str" /\ ~IsFloatStr(x.s))

\* C10: whatever LONGITUDE, LATITUDE and ELEVATION of the records hold, the
\* normalizer returns its tables, and the metadata row of a record holds
\* null for each field that is missing, null or not a number.
C10_OddMetadataTolerated ==
  Applied
    => /\ norm.res.exc = ""
       /\ \A k \in DOMAIN norm.data :
            /\ NotNumeric(norm.data[k].LONGITUDE)
                 => norm.res.meta_df.rows[k].cells[1] = None
            /\ NotNumeric(norm.data[k].LATITUDE)
                 => norm.res.meta_df.rows[k].cells[2] = None
            /\ NotNumeric(norm.data[k].ELEVATION)
                 => norm.res.meta_df.rows[k].cells[3] = None

\* a null field is tolerated: the row holds null and the tables are returned
C10_Witness ==
  /\ Returned
  /\ norm.service = TimeSeries
  /\ Len(norm.data) = 1
  /\ norm.data[1].ELEVATION = Null
  /\ norm.res.meta_df.rows[1].cells = <<Num(0 - 111), Num(40), None>>

\* the columns of an observation table and the UNITS entries of a response
UnitColumns ==
  {AirTemp, <<"sea_level_", "pressure", "_set_1">>, <<"pressure", "_set_1">>,
   <<"wind_speed", "_set_1">>}
UnitEntries ==
  {[k |-> <<"air_temp">>, v |-> "Celsius"], [k |-> <<"pressure">>, v |-> "Pascals"],
   [k |-> <<"sea_level_", "pressure">>, v |-> "Millibars"],
   [k |-> <<"wind_speed">>, v |-> "Miles/hour"],
   [k |-> <<"precipitation">>, v |-> "Millimeters"]}

\* lines 405-414 on the columns of a table and a UNITS payload, in any key
\* order
BuildUnits ==
  /\ norm.fn = ""
  /\ \E nc \in 1..2, nu \in 0..MaxUnits :
       \E columns \in Distinct(UnitColumns, nc), units \in Distinct(UnitEntries, nu) :
         \E unit_dic \in {unit_dic_of(columns, units)} :
           Normalized("unit_dic", "", FALSE, FALSE,
                      [columns |-> columns, UNITS |-> units],
                      [exc |-> "", unit_dic |-> unit_dic])

SpecUnits == Init /\ [][BuildUnits]_vars

\* the normalizer returned the table of a Latest or NearestTime response
LatestReturned ==
  Returned /\ norm.fn = "return_stn_df" /\ norm.service \in {Latest, NearestTime}

\* the rows of the table that belong to station stid
RowsOf(df, stid) == {r \in DOMAIN df.rows : df.rows[r].key[1] = stid}

\* C11: the observation table of a Latest or NearestTime response has one
\* row per station record, keyed by the record's station id and the date of
\* the first variable of its observation block, and in that row the column
\* of every variable of the record holds the variable's value, whatever
\* dates the other variables carry; the columns are the variables observed.
C11_OneRowPerStation ==
  LatestReturned
    => /\ Len(norm.res.data_df.rows) = Len(norm.data)
       /\ norm.res.data_df.names = <<"stid", "dattim">>
       /\ Range(norm.res.data_df.columns)
            = UNION {Keys(norm.data[k].OBSERVATIONS.d) : k \in DOMAIN norm.data}
       /\ \A k \in DOMAIN norm.data :
            /\ Cardinality(RowsOf(norm.res.data_df, norm.data[k].STID)) = 1
            /\ \A r \in RowsOf(norm.res.data_df, norm.data[k].STID) :
                 /\ norm.res.data_df.rows[r].key[2]
                      = to_datetime(norm.data[k].OBSERVATIONS.d[1].v.date_time).v
                 /\ \A c \in DOMAIN norm.res.data_df.columns :
                      Has(norm.data[k].OBSERVATIONS.d, norm.res.data_df.columns[c])
                        => norm.res.data_df.rows[r].cells[c]
                             = Get(norm.data[k].OBSERVATIONS.d,
                                   norm.res.data_df.columns[c]).value

C11_Witness ==
  /\ LatestReturned
  /\ Len(norm.data) = 1
  /\ norm.data[1].STID = "KMSO"
  /\ Len(norm.data[1].OBSERVATIONS.d) = 2
  /\ norm.data[1].OBSERVATIONS.d[1].v.date_time = JStr(DateStrings[2])
  /\ norm.data[1].OBSERVATIONS.d[2].v.date_time = JStr(DateStrings[1])
  /\ norm.res.data_df.rows = <<[key |-> <<"KMSO", 60>>, cells |-> <<norm.data[1].OBSERVATIONS.d[1].v.value,
                               norm.data[1].OBSERVATIONS.d[2].v.value>>]>>
  /\ norm.res.data_df.rows[1].cells[1] # norm.res.data_df.rows[1].cells[2]

\* a request that returned its tuple with the QC element
QCReturned == Asked /\ out.err = NoErr /\ qc_flag_of(out.pre.opt_params)

\* the station records of the reply that carry a QC column
WithQC(stations) ==
  {k \in DOMAIN stations : stations[k].QC.present /\ stations[k].QC.d # <<>>}

\* C12: when QC was requested and no station record of the successful
\* response carries a QC column, the QC element of the result is None and
\* not an empty table; when some record carries one, it is a table with
\* columns.
C12_NoFlagsIsNone ==
  QCReturned
    => /\ out.ret.n = 4
       /\ WithQC(out.resp.STATION) = {} => out.ret.qc_df = NoDF
       /\ WithQC(out.resp.STATION) # {}
            => /\ out.ret.qc_df.names = <<"stid", "dattim">>
               /\ out.ret.qc_df.columns # <<>>
       /\ obj[out.i].qc_df = out.ret.qc_df

C12_Witness ==
  /\ QCReturned
  /\ out.resp.STATION # <<>>
  /\ WithQC(out.resp.STATION) = {}
  /\ out.ret.qc_df = NoDF
  /\ out.ret.data_df.rows # <<>>

\* a request whose reply has QC columns for one station and none for another
C12_WitnessTable ==
  /\ QCReturned
  /\ WithQC(out.resp.STATION) = {1}
  /\ Len(out.resp.STATION) = 2
  /\ out.ret.qc_df.columns = <<AirTemp>>

\* the normalizer returned a TimeSeries QC table that has columns
QCTableBuilt == SeriesReturned /\ norm.qc_flag /\ norm.res.qc_df.columns # <<>>

\* C13: when QC was requested and the response carries QC columns, the QC
\* table has the index levels of the observation table and, at every row
\* position, the (station id, timestamp) key the observation table has at
\* that position, for any number and any order of the station records.
C13_QCRowsAligned ==
  QCTableBuilt
    => /\ norm.res.qc_df.names = norm.res.data_df.names
       /\ Len(norm.res.qc_df.rows) = Len(norm.res.data_df.rows)
       /\ \A r \in DOMAIN norm.res.qc_df.rows :
            norm.res.qc_df.rows[r].key = norm.res.data_df.rows[r].key

\* a response listing KSLC before KMSO: the observation table starts with
\* KMSO, the QC table with KSLC
C13_Witness ==
  /\ QCTableBuilt
  /\ Len(norm.data) = 2
  /\ norm.data[1].STID = "KSLC" /\ norm.data[2].STID = "KMSO"
  /\ Len(DateTimes(norm.data[1])) = 1 /\ Len(DateTimes(norm.data[2])) = 1
  /\ norm.res.data_df.rows[1].key[1] = "KMSO"
  /\ norm.res.qc_df.rows[1].key[1] = "KSLC"
  /\ Len(norm.res.qc_df.rows) = 2

\* a request the service answered with a successful response
Answered == Sent /\ ~out.resp.transport /\ out.resp.code = 1

\* a station record that lacks OBSERVATIONS
NoObservations(stations) == {k \in DOMAIN stations : ~stations[k].OBSERVATIONS.present}

\* a station record whose observation block is empty
EmptyObservations(stations, service) ==
  {k \in DOMAIN stations : /\ stations[k].OBSERVATIONS.present
                            /\ stations[k].OBSERVATIONS.d = EmptyBlock(service)}

\* every station record of the reply has a non-empty observation block
WellFormed ==
  NoObservations(out.resp.STATION)
    \cup EmptyObservations(out.resp.STATION, obj[out.i].service) = {}


\* the options set 'qc_flag' or 'qc' to 'on'
SetsQCOn(opt_params) ==
  \/ <<"qc_flag", S("on")>> \in Items(opt_params)
  \/ <<"qc", S("on")>> \in Items(opt_params)

C14_Witness ==
  /\ Answered
  /\ obj[out.i].service = Precip
  /\ SetsQCOn(out.pre.opt_params)
  /\ out.err = Raise("UnboundLocalError")
  /\ out.ret = NoRet

AsksQC(opt_params) ==
  \/ <<"qc_flag", S("on")>> \in Items(opt_params)
  \/ /\ <<"qc", S("on")>> \in Items(opt_params)
     /\ <<"qc_flag", S("off")>> \notin Items(opt_params)

C15_UnitKeysAreColumns ==
  (Asked /\ out.err = NoErr)
    => Keys(out.ret.unit_dic) \subseteq Range(out.ret.data_df.columns)

C15_Witness ==
  /\ Asked /\ out.err = NoErr
  /\ obj[out.i].service = TimeSeries
  /\ out.ret.data_df.columns = <<AirTemp>>
  /\ out.ret.unit_dic = <<[k |-> AirTemp, v |-> "degC"]>>

\* the unit map of a Precip response
C15_WitnessPrecip ==
  /\ Asked /\ out.err = NoErr
  /\ obj[out.i].service = Precip
  /\ out.ret.data_df.columns = <<<<"precipitation">>>>
  /\ out.ret.unit_dic = <<[k |-> <<"precipitation">>, v |-> "millimeter"]>>

\* the unit map of a table's columns was built
UnitsBuilt == norm.fn = "unit_dic"

\* the units the map gives to its columns
UnitValues(unit_dic) == {unit_dic[j].v : j \in DOMAIN unit_dic}

\* the entries of the rename table whose raw spelling is unit
Renames(unit) == {m \in DOMAIN units_map : units_map[m][1] = unit}

\* the positions of the UNITS entries whose key the column name contains
Matches(column, units) == {j \in DOMAIN units : Find(column, units[j].k)}

\* the largest and the smallest of a non-empty set of positions
Last(js) == CHOOSE j \in js : \A i \in js : i <= j
First(js) == CHOOSE j \in js : \A i \in js : j <= i

\* C16: for every entry of the raw UNITS payload whose unit is a key of the
\* rename table, the unit map has the mapped spelling among its values and
\* never the raw one.
C16_EveryRenameAppears ==
  UnitsBuilt
    => \A j \in DOMAIN norm.data.UNITS : \A m \in Renames(norm.data.UNITS[j].v) :
         /\ units_map[m][2] \in UnitValues(norm.res.unit_dic)
         /\ units_map[m][1] \notin UnitValues(norm.res.unit_dic)

\* C16, amended: no value of the unit map is a raw spelling of the rename
\* table, and an entry whose unit the table renames gives the mapped
\* spelling to every column for which it is the last entry of the payload
\* whose key the column name contains; an entry that is that for no column
\* leaves no trace in the map.
C16_RenamedWhereMatched ==
  UnitsBuilt
    => /\ \A m \in DOMAIN units_map : units_map[m][1] \notin UnitValues(norm.res.unit_dic)
       /\ \A j \in DOMAIN norm.data.UNITS : \A m \in Renames(norm.data.UNITS[j].v) :
            \A c \in DOMAIN norm.data.columns :
              (/\ Matches(norm.data.columns[c], norm.data.UNITS) # {}
               /\ j = Last(Matches(norm.data.columns[c], norm.data.UNITS)))
                => <<norm.data.columns[c], units_map[m][2]>> \in Items(norm.res.unit_dic)

C16_Witness ==
  /\ UnitsBuilt
  /\ norm.data.columns = <<AirTemp, <<"wind_speed", "_set_1">>>>
  /\ norm.data.UNITS = <<[k |-> <<"wind_speed">>, v |-> "Miles/hour"],
                         [k |-> <<"air_temp">>, v |-> "Celsius"]>>
  /\ norm.res.unit_dic = <<[k |-> AirTemp, v |-> "degC"],
                           [k |-> <<"wind_speed", "_set_1">>, v |-> "mile/hour"]>>

\* a renamed entry of the payload that no column matches
C16_WitnessUnmatched ==
  /\ UnitsBuilt
  /\ norm.data.columns = <<AirTemp>>
  /\ norm.data.UNITS = <<[k |-> <<"air_temp">>, v |-> "Celsius"],
                         [k |-> <<"precipitation">>, v |-> "Millimeters"]>>
  /\ norm.res.unit_dic = <<[k |-> AirTemp, v |-> "degC"]>>

\* the unit of the UNITS entry at position j, as lines 406-408 rename it
Renamed(units, j) ==
  IF Renames(units[j].v) = {} THEN units[j].v
  ELSE units_map[CHOOSE m \in Renames(units[j].v) : TRUE][2]

\* C17: a column whose name contains more than one key of the UNITS payload
\* gets the unit of the first of these keys in the payload's key order.
C17_FirstMatchWins ==
  UnitsBuilt
    => \A c \in DOMAIN norm.data.columns :
         Cardinality(Matches(norm.data.columns[c], norm.data.UNITS)) > 1
           => <<norm.data.columns[c],
                Renamed(norm.data.UNITS, First(Matches(norm.data.columns[c], norm.data.UNITS)))>>
                \in Items(norm.res.unit_dic)

\* C17, amended: a column whose name contains at least one key of the UNITS
\* payload gets the unit of the last of these keys in the payload's key
\* order, and a column whose name contains none gets no entry.
C17_LastMatchWins ==
  UnitsBuilt
    => \A c \in DOMAIN norm.data.columns :
         IF Matches(norm.data.columns[c], norm.data.UNITS) = {}
           THEN ~Has(norm.res.unit_dic, norm.data.columns[c])
           ELSE <<norm.data.columns[c],
                  Renamed(norm.data.UNITS, Last(Matches(norm.data.columns[c], norm.data.UNITS)))>>
                  \in Items(norm.res.unit_dic)

C17_Witness ==
  /\ UnitsBuilt
  /\ norm.data.columns = <<<<"sea_level_", "pressure", "_set_1">>>>
  /\ norm.data.UNITS = <<[k |-> <<"sea_level_", "pressure">>, v |-> "Millibars"],
                         [k |-> <<"pressure">>, v |-> "Pascals"]>>
  /\ norm.res.unit_dic = <<[k |-> <<"sea_level_", "pressure", "_set_1">>, v |-> "pascal"]>>

\* the normalizer returned the table of a Precip response
PrecipReturned == Returned /\ norm.fn = "return_precip_df"

\* the raw records of the station records, in the order of the response
RECURSIVE PrecipRecords(_)
PrecipRecords(data) ==
  IF data = <<>> THEN <<>>
  ELSE data[1].OBSERVATIONS.d.recs \o PrecipRecords(Tail(data))

\* some raw record has the field
SomeRecordHas(data, field) ==
  \E r \in DOMAIN PrecipRecords(data) : Has(PrecipRecords(data)[r], field)

\* the cell of a row in the column named name
Cell(df, r, name) == df.rows[r].cells[IndexOf(df.columns, name)]

\* C18: the observation table of every successful Precip response, with
\* pmode (raw field 'total') and without (raw field 'total_precip_value_1'),
\* has a column 'precipitation' that holds the raw total of each record and
\* has no 'report_type' column or index level, also when raw records
\* carried report_type.
C18_PrecipitationColumn ==
  PrecipReturned
    => /\ InSeq(norm.res.data_df.columns, <<"precipitation">>)
       /\ ~InSeq(norm.res.data_df.columns, <<"report_type">>)
       /\ ~InSeq(norm.res.data_df.names, <<"report_type">>)
       /\ ~InSeq(norm.res.data_df.columns, <<"total">>)
       /\ ~InSeq(norm.res.data_df.columns, <<"total_precip_value_1">>)
       /\ Len(norm.res.data_df.rows) = Len(PrecipRecords(norm.data))
       /\ \A r \in DOMAIN norm.res.data_df.rows :
            Cell(norm.res.data_df, r, <<"precipitation">>)
              = Get(PrecipRecords(norm.data)[r],
                    IF norm.pmode THEN <<"total">> ELSE <<"total_precip_value_1">>)

C18_Witness ==
  /\ PrecipReturned
  /\ norm.pmode
  /\ Len(norm.data) = 2
  /\ Len(PrecipRecords(norm.data)) = 3
  /\ SomeRecordHas(norm.data, <<"report_type">>)
  /\ ~Has(PrecipRecords(norm.data)[1], <<"report_type">>)
  /\ norm.res.data_df.columns = <<<<"precipitation">>>>
  /\ Cell(norm.res.data_df, 3, <<"precipitation">>) # Cell(norm.res.data_df, 2, <<"precipitation">>)

\* the same without pmode
C18_WitnessLegacy ==
  /\ PrecipReturned
  /\ ~norm.pmode
  /\ SomeRecordHas(norm.data, <<"report_type">>)
  /\ norm.res.data_df.columns = <<<<"precipitation">>>>
  /\ Cell(norm.res.data_df, 1, <<"precipitation">>) = Num(5)

\* C19: the Precip observation table is indexed by (stid, accum_hours,
\* first_report, last_report) when the payload has an accum_hours field, by
\* (stid, interval, first_report, last_report) when it has an interval
\* field, and by (stid, first_report, last_report) when it has neither; each
\* row's key holds these values of its record.
C19_PrecipIndexLevels ==
  PrecipReturned
    => /\ norm.res.data_df.names
            = IF SomeRecordHas(norm.data, <<"accum_hours">>)
                THEN << <<"stid">>, <<"accum_hours">>, <<"first_report">>, <<"last_report">> >>
              ELSE IF SomeRecordHas(norm.data, <<"interval">>)
                THEN << <<"stid">>, <<"interval">>, <<"first_report">>, <<"last_report">> >>
              ELSE << <<"stid">>, <<"first_report">>, <<"last_report">> >>
       /\ \A r \in DOMAIN norm.res.data_df.rows :
            /\ Len(norm.res.data_df.rows[r].key) = Len(norm.res.data_df.names)
            /\ \A l \in DOMAIN norm.res.data_df.names :
                 /\ norm.res.data_df.names[l] \in {<<"accum_hours">>, <<"interval">>}
                 /\ Has(PrecipRecords(norm.data)[r], norm.res.data_df.names[l])
                 => norm.res.data_df.rows[r].key[l]
                      = Get(PrecipRecords(norm.data)[r], norm.res.data_df.names[l])

C19_Witness ==
  /\ PrecipReturned
  /\ norm.pmode
  /\ Len(norm.data) = 1
  /\ Len(PrecipRecords(norm.data)) = 2
  /\ SomeRecordHas(norm.data, <<"interval">>)
  /\ norm.res.data_df.names = << <<"stid">>, <<"interval">>, <<"first_report">>, <<"last_report">> >>
  /\ norm.res.data_df.rows[2].key = <<JStr("KSLC"), Num(2), Num(60), Num(120)>>

\* a payload with accum_hours, and one with neither field
C19_WitnessLast ==
  /\ PrecipReturned
  /\ SomeRecordHas(norm.data, <<"accum_hours">>)
  /\ norm.res.data_df.names[2] = <<"accum_hours">>
  /\ norm.res.data_df.rows[1].key[2] = Num(1)
C19_WitnessTotals ==
  /\ PrecipReturned
  /\ norm.pmode
  /\ ~SomeRecordHas(norm.data, <<"accum_hours">>)
  /\ ~SomeRecordHas(norm.data, <<"interval">>)
  /\ Len(norm.res.data_df.names) = 3

\* the service a name selects when letter case is ignored
IgnoringCase(service) ==
  IF service \in {"Timeseries", "timeseries", "TimeSeries"} THEN TimeSeries
  ELSE IF service \in {"Nearesttime", "nearestTime", "NearestTime"} THEN NearestTime
  ELSE IF service \in {"Latest", "latest"} THEN Latest
  ELSE service

\* C20: the service kind is recognised regardless of letter case: a
\* construction naming TimeSeries, NearestTime or Latest in any of the
\* spellings of the tests is not refused as 'Invalid Service' and, when the
\* station and time keys are valid, builds the descriptor of that service.
C20_ServiceCaseIgnored ==
  (out.op = "__init__" /\ IgnoringCase(out.args.service) \in Services)
    => /\ out.err # SystemExit("Invalid Service", {})
       /\ out.err = NoErr
            => /\ obj[out.i].service = IgnoringCase(out.args.service)
               /\ obj[out.i].url0 = url0(IgnoringCase(out.args.service))

\* 'Timeseries' with a valid station and valid time keys is refused
C20_Witness ==
  /\ out.op = "__init__"
  /\ out.args.service = "Timeseries"
  /\ out.args.station # <<>>
  /\ Keys(out.args.station) \subseteq stn_keys
  /\ out.args.time.given
  /\ Keys(out.args.time.d) \subseteq valid_time_keys(TimeSeries)
  /\ out.err = SystemExit("Invalid Service", {})
  /\ ~obj[out.i].live

\* a construction that left the token out
BuiltNoToken == out.op = "SynopticData(service, station, time)"

\* C21: the token is optional: SynopticData(service, station, time) and
\* SynopticData(service, station, time, opt_params) with valid station and
\* time keys build a descriptor whose service is the first argument, whose
\* station mapping the second and whose time mapping the third.
C21_TokenOptional ==
  (/\ BuiltNoToken
   /\ out.args.station # <<>>
   /\ Keys(out.args.station) \subseteq stn_keys
   /\ Keys(out.args.time.d) \subseteq valid_time_keys(out.args.service))
    => /\ out.err = NoErr
       /\ obj[out.i].live
       /\ obj[out.i].service = out.args.service
       /\ obj[out.i].station = out.args.station
       /\ heap[obj[out.i].time] = out.args.time.d

\* the Latest request of the tutorial is refused as 'Invalid Service'
C21_Witness ==
  /\ BuiltNoToken
  /\ out.args.service = Latest
  /\ Keys(out.args.station) = {"stid", "vars"}
  /\ Keys(out.args.time.d) = {"within"}
  /\ ~out.args.opt_params.given
  /\ out.err = SystemExit("Invalid Service", {})
  /\ ~obj[out.i].live

\* C22: a reused descriptor's next URL is determined by the station, time
\* and option values the caller set last, nothing being carried over from an
\* earlier request: where the caller never sets precip among the options, as
\* in the reuse script, a request carries precip only when the station's
\* current vars selector names a precipitation variable.
C22_NothingCarriedOver ==
  Sent
    => \A q \in Params :
         q[1] = "precip" => /\ Has(out.pre.station, "vars")
                            /\ NamesPrecip(Get(out.pre.station, "vars"))

\* a request for air_temp and wind_speed that carries the precip=1 an
\* earlier request of the descriptor wrote into its options
C22_Witness ==
  /\ Sent
  /\ obj[out.i].service = TimeSeries
  /\ <<"vars", PyList(<<PyStr(<<"air_temp">>), PyStr(<<"wind_speed">>)>>)>>
       \in Items(out.pre.station)
  /\ obj[out.i].opt_params = OptSlot(out.i)
  /\ <<"precip", PyInt("1")>> \in Items(out.pre.opt_params)
  /\ <<"precip", <<"1">> >> \in Params

\* C23: constructing a descriptor with an empty station mapping ends, for
\* each of the four services and whatever the time and option mappings are,
\* in SystemExit with the message that a station parameter is required, and
\* no descriptor is built.
C23_EmptyStationRefused ==
  (Built /\ out.args.station = <<>>)
    => /\ out.err = SystemExit("At least one station parameter is required", {})
       /\ ~obj[out.i].live

\* an empty station mapping with time keys that are themselves invalid
C23_Witness ==
  /\ Built
  /\ out.args.service = Precip
  /\ out.args.station = <<>>
  /\ out.args.time.given
  /\ "bogus" \in Keys(out.args.time.d)
  /\ out.args.opt_params.given
  /\ out.args.opt_params.d # <<>>
  /\ out.err = SystemExit("At least one station parameter is required", {})

\* the result values a descriptor stores
Stored(self) ==
  <<self.data_df, self.meta_df, self.qc_df, self.variable_position,
    self.variable_derived_from>>

\* the request failed as a whole: an exception, no tuple
FailedWhole == out.err.exc \in {"KeyError", "IndexError"} /\ out.ret = NoRet

\* C24: normalization is all-or-nothing: when a station record of a
\* successful response lacks OBSERVATIONS or has an empty observation block,
\* request_data fails as a whole, returns no table and leaves the result
\* values stored on the descriptor as they were, also when the other records
\* are well-formed.
C24_AllOrNothing ==
  [][(/\ Answered'
      /\ NoObservations(out'.resp.STATION)
           \cup EmptyObservations(out'.resp.STATION, obj'[out'.i].service) # {})
       => /\ FailedWhole'
          /\ Stored(obj'[out'.i]) = Stored(obj[out'.i])]_vars

\* C24, amended: the same for a record that lacks OBSERVATIONS, of any
\* service, and for a record with an empty observation block of a
\* TimeSeries, Latest or NearestTime response or of a Precip response to a
\* request with pmode.
C24_MalformedAborts ==
  [][(/\ Answered'
      /\ \/ NoObservations(out'.resp.STATION) # {}
         \/ /\ EmptyObservations(out'.resp.STATION, obj'[out'.i].service) # {}
            /\ (obj'[out'.i].service = Precip => obj'[out'.i].pmode))
       => /\ FailedWhole'
          /\ Stored(obj'[out'.i]) = Stored(obj[out'.i])]_vars

\* a Latest response whose second record has an empty block, after a
\* well-formed first record: IndexError at the second record
C24_Witness ==
  /\ Answered
  /\ obj[out.i].service = Latest
  /\ EmptyObservations(out.resp.STATION, Latest) = {2}
  /\ out.err = Raise("IndexError")
  /\ out.walked = 2
  /\ out.ret = NoRet
  /\ obj[out.i].data_df = UnsetDF

\* a Precip response without pmode whose second record has an empty block:
\* a table with a row for it is returned
C24_WitnessPrecip ==
  /\ Answered
  /\ obj[out.i].service = Precip
  /\ ~obj[out.i].pmode
  /\ EmptyObservations(out.resp.STATION, Precip) = {2}
  /\ out.err = NoErr
  /\ Len(out.ret.data_df.rows) = 2

\* variable_details returned its two mappings
DetailsReturned == norm.fn = "variable_details" /\ norm.res.exc = ""

\* the sensors of a station record: (name, fields) for every child of every
\* variable
Sensors(rec) ==
  UNION {{<<rec.SENSOR_VARIABLES.d[a].v[b].k, rec.SENSOR_VARIABLES.d[a].v[b].v>> :
            b \in DOMAIN rec.SENSOR_VARIABLES.d[a].v} :
         a \in DOMAIN rec.SENSOR_VARIABLES.d}

\* C25: the position and derived_from mappings have exactly one entry per
\* station id of the response; a station's position entry has a sensor
\* exactly when the sensor's position field is present and not empty, and
\* its derived_from entry has a sensor exactly when the sensor has a
\* derived_from field, with the value of that field.
C25_DetailsPerStation ==
  DetailsReturned
    => /\ Len(norm.res.position) = Len(norm.data)
       /\ Len(norm.res.derived_from) = Len(norm.data)
       /\ Keys(norm.res.position) = {norm.data[k].STID : k \in DOMAIN norm.data}
       /\ Keys(norm.res.derived_from) = {norm.data[k].STID : k \in DOMAIN norm.data}
       /\ \A k \in DOMAIN norm.data : \A sn \in Sensors(norm.data[k]) :
            /\ Has(Get(norm.res.position, norm.data[k].STID), sn[1])
                 <=> (sn[2].position.t # "absent" /\ sn[2].position # JStr(""))
            /\ Has(Get(norm.res.derived_from, norm.data[k].STID), sn[1])
                 <=> sn[2].derived_from.t # "absent"
            /\ sn[2].derived_from.t # "absent"
                 => Get(Get(norm.res.derived_from, norm.data[k].STID), sn[1])
                      = sn[2].derived_from

C25_Witness ==
  /\ DetailsReturned
  /\ Len(norm.data) = 2
  /\ Keys(Get(norm.res.position, "KSLC")) = {AirTemp}
  /\ Keys(Get(norm.res.position, "KMSO")) = {}
  /\ Keys(Get(norm.res.derived_from, "KSLC")) = {<<"wind_speed", "_set_1">>}
  /\ Keys(Get(norm.res.derived_from, "KMSO")) = {AirTemp, <<"wind_speed", "_set_1">>}

\* an estimate_usage call the metadata service answered
Estimated == out.op = "estimate_usage" /\ out.net = 1 /\ ~out.resp.transport

\* C26: when the metadata service answers estimate_usage with a
\* RESPONSE_CODE other than 1, the call ends in SystemExit with the service's
\* RESPONSE_MESSAGE, as request_data does, and prints no estimate.
C26_EstimateRefusalExits ==
  (Estimated /\ out.resp.code # 1)
    => /\ out.err = SystemExit(out.resp.msg, {})
       /\ ~out.est.printed

\* the refusal ends in AttributeError, the service's message nowhere
C26_Witness ==
  /\ Estimated
  /\ out.resp = Refusal(2, "No stations found for this request.")
  /\ out.err = Raise("AttributeError")
  /\ ~out.est.printed

\* the number of variables a vars selector asks for
Requested_vars(v) ==
  IF v.t = "str" THEN 1 + Cardinality({j \in DOMAIN v.s : v.s[j] = ","})
  ELSE Len(v.items)

\* C27: an estimate_usage call whose metadata request succeeds completes
\* with an estimate and leaves the station, time and option mappings of the
\* descriptor as they were; when the station mapping has 'vars', a
\* comma-separated string or a list of names, the variable count of the
\* estimate is the number of variables asked for.
C27_EstimateCompletes ==
  (Estimated /\ out.resp.code = 1)
    => /\ out.err = NoErr
       /\ out.est.printed
       /\ out.est.num_stns = Len(out.resp.STATION)
       /\ Now = out.pre
       /\ \A q \in Items(out.pre.station) :
            q[1] = "vars" => out.est.num_vars = Requested_vars(q[2])

\* vars given as a list of two names: AttributeError, no estimate
C27_Witness ==
  /\ Estimated
  /\ out.resp.code = 1
  /\ <<"vars", PyList(<<PyStr(<<"air_temp">>), PyStr(<<"wind_speed">>)>>)>>
       \in Items(out.pre.station)
  /\ out.err = Raise("AttributeError")
  /\ ~out.est.printed

\* vars given as a comma-separated string of two names: two variables
C27_WitnessString ==
  /\ Estimated
  /\ out.err = NoErr
  /\ <<"vars", PyStr(<<"air_temp", ",", "precip", "_accum">>)>> \in Items(out.pre.station)
  /\ out.est = [printed |-> TRUE, num_stns |-> 2, num_vars |-> 2]
  /\ Now = out.pre

\* what a descriptor's next request is built from
Request(self, h) ==
  [token |-> self.token, url0 |-> self.url0, dicts |-> Dicts(self, h),
   url |-> url_of(self, h)]

\* C28: descriptors are independent: a request_data or estimate_usage call
\* on one instance leaves the station, time and option mappings of every
\* other instance, and the URL it builds from them, as they were, also for
\* instances constructed without a time or opt_params argument.
C28_InstancesIndependent ==
  [][\A j \in Insts :
       (/\ out'.op \in {"request_data", "estimate_usage"}
        /\ out'.i # j
        /\ obj[j].live)
         => Request(obj'[j], heap') = Request(obj[j], heap)]_vars

\* a request of instance 1 left precip=1 in the options of instance 2, which
\* was constructed without opt_params and asks for air_temp only
C28_Witness ==
  /\ out.op = "request_data"
  /\ out.i = 1
  /\ ~Has(out.pre.opt_params, "precip")
  /\ obj[2].live
  /\ obj[2].opt_params = "dflt_opt"
  /\ <<"vars", PyStr(<<"air_temp">>)>> \in Items(obj[2].station)
  /\ <<"precip", PyInt("1")>> \in Items(Dicts(obj[2], heap).opt_params)
  /\ \E j \in DOMAIN url_of(obj[2], heap).query : url_of(obj[2], heap).query[j].k = "precip"

\* C29: after every successful request_data call the result values stored
\* on the descriptor derive from that call's response: the tables are the
\* ones returned, the QC table is the one returned or, when the call
\* returned none, not set, and the sensor details are those of the
\* response's records.
C29_ResultsAreFresh ==
  (Asked /\ out.err = NoErr)
    => /\ obj[out.i].data_df = out.ret.data_df
       /\ obj[out.i].meta_df = out.ret.meta_df
       /\ obj[out.i].qc_df = IF out.ret.n = 4 THEN out.ret.qc_df ELSE UnsetDF
       /\ obj[out.i].service # Precip
            => /\ obj[out.i].variable_position
                    = variable_details(out.resp.STATION).position
               /\ obj[out.i].variable_derived_from
                    = variable_details(out.resp.STATION).derived_from

\* a request without QC, answered for KSLC and KMSO, on a descriptor that
\* still holds the QC table of an earlier request
C29_Witness ==
  /\ Asked /\ out.err = NoErr
  /\ out.ret.n = 3
  /\ ~Has(out.pre.opt_params, "qc")
  /\ Len(out.resp.STATION) = 2
  /\ obj[out.i].qc_df.columns = <<AirTemp>>
  /\ Len(obj[out.i].qc_df.rows) < Len(obj[out.i].data_df.rows)

\* C30: for every service, Precip included, a request whose options turn QC
\* on and whose response is successful returns four elements, observations,
\* units, metadata and the QC table or None; it does not fail after the
\* response was received.
C30_QCReturnsFour ==
  (Answered /\ WellFormed /\ AsksQC(out.pre.opt_params))
    => /\ out.err = NoErr
       /\ out.ret.n = 4
       /\ out.ret.data_df = obj[out.i].data_df
       /\ out.ret.meta_df = obj[out.i].meta_df

\* a Precip request with qc_flag on: the tables are built and stored, then
\* the call raises
C30_Witness ==
  /\ Answered /\ WellFormed
  /\ obj[out.i].service = Precip
  /\ <<"qc_flag", S("on")>> \in Items(out.pre.opt_params)
  /\ out.err = Raise("UnboundLocalError")
  /\ out.ret = NoRet
  /\ out.walked = Len(out.resp.STATION)
  /\ obj[out.i].data_df.columns = <<<<"precipitation">>>>

====
